---- MODULE Spec2Model ----
(***************************************************************************)
(* Model of the parametric propagation and designation-assignment engine   *)
(* of kompas3d_project_manager:                                            *)
(*   components/designation_updater_fixed.py  update_all_designations      *)
(*   components/dxf_renamer.py                get_part_quantity_from_assembly *)
(*   components/cascading_variables_updater.py update_project_variables    *)
(*                                                                         *)
(* Text.  A Python string is a sequence of atoms.  The atoms " ", "-",     *)
(* "+", "*", "/", "?", ".", ":", "|", "_", "\\" and the decimal digits are   *)
(* single characters; every other atom is a run of characters containing   *)
(* none of those (a word, transliterated from the Russian of the source;   *)
(* " - " is the separator of a numbered file name).  strip(), lower(),     *)
(* startswith(), the "in" substring test, str() and the :03d format are    *)
(* computed on these sequences.                                            *)
(***************************************************************************)
EXTENDS Integers, Sequences, FiniteSets, TLC

(***************************************************************************)
(* Bounds of the model.                                                    *)
(***************************************************************************)
MaxInst == 3
MaxRuns == 2

(***************************************************************************)
(* Python string operations.                                               *)
(***************************************************************************)
RECURSIVE LStrip(_)
LStrip(s) == IF s # <<>> /\ Head(s) = " " THEN LStrip(Tail(s)) ELSE s

RECURSIVE RStrip(_)
RStrip(s) ==
    IF s # <<>> /\ s[Len(s)] = " " THEN RStrip(SubSeq(s, 1, Len(s) - 1)) ELSE s

Strip(s) == RStrip(LStrip(s))

StartsWith(s, p) == Len(s) >= Len(p) /\ SubSeq(s, 1, Len(p)) = p

Contains(s, sub) ==
    \E i \in 1..(Len(s) - Len(sub) + 1) : SubSeq(s, i, i + Len(sub) - 1) = sub

LowerAtom(a) ==
    CASE a = "Korpus" -> "korpus"
      [] a = "Koroba" -> "koroba"
      [] a = "Stenka" -> "stenka"
      [] a = "Teploobmennik" -> "teploobmennik"
      [] a = "Ventilyator" -> "ventilyator"
      [] a = "Sborka" -> "sborka"
      [] a = "Konvektor" -> "konvektor"
      [] a = "Razvertka" -> "razvertka"
      [] a = "Rasporka" -> "rasporka"
      [] a = "Nakladka" -> "nakladka"
      [] OTHER -> a

Lower(s) == [i \in 1..Len(s) |-> LowerAtom(s[i])]

DigitChar(d) ==
    CASE d = 0 -> "0" [] d = 1 -> "1" [] d = 2 -> "2" [] d = 3 -> "3"
      [] d = 4 -> "4" [] d = 5 -> "5" [] d = 6 -> "6" [] d = 7 -> "7"
      [] d = 8 -> "8" [] d = 9 -> "9"

\* str(n) for a natural number n
RECURSIVE StrNat(_)
StrNat(n) == IF n < 10 THEN <<DigitChar(n)>>
             ELSE StrNat(n \div 10) \o <<DigitChar(n % 10)>>

\* a format without padding
FormatPlain(n) == StrNat(n)

\* f"{n:03d}": at least three digits, zero-padded on the left
Format03d(n) ==
    LET d == StrNat(n)
    IN  IF Len(d) >= 3 THEN d
        ELSE IF Len(d) = 2 THEN <<"0">> \o d ELSE <<"0", "0">> \o d

\* Path(p).name: what follows the last path separator
RECURSIVE PathName(_)
PathName(p) ==
    IF \E i \in 1..Len(p) : p[i] = "\\"
    THEN PathName(Tail(p))
    ELSE p

\* Path.stem of a file name: the name without its suffix atom
Stem(f) == IF f = <<>> THEN <<>> ELSE SubSeq(f, 1, Len(f) - 1)

FirstIndex(s, a) ==
    IF \E i \in 1..Len(s) : s[i] = a
    THEN CHOOSE i \in 1..Len(s) : s[i] = a /\ \A j \in 1..(i - 1) : s[j] # a
    ELSE 0

(***************************************************************************)
(* The data the model is run on.                                           *)
(***************************************************************************)
PrefixLite  == <<"ZVD", ".", "LITE">>
PrefixTurbo == <<"ZVD", ".", "TURBO">>

\* (H, B1, L1, project_type) as handed over by the GUI's option menu
Inputs ==
    { [H |-> 160, B1 |-> 350, L1 |-> 2600, prefix |-> PrefixLite],
      [H |-> 160, B1 |-> 350, L1 |-> 2600, prefix |-> PrefixTurbo],
      [H |-> 129, B1 |-> 160, L1 |-> 1400, prefix |-> PrefixLite] }

NameHousing    == <<"Korpus", " ", "koroba">>
NameWall       == <<"Stenka">>
NameWallPadded == <<"Stenka", " ">>
NameHeat       == <<"Teploobmennik", " ", "Koroba">>

MkEmpty  == <<>>
MkAux    == <<"-", "X">>
MkOld    == <<"OLD">>
MkPadded == <<" ", "ZVD", ".", "LITE", ".", "1", "6", "0", ".", "3", "5", "0",
              ".", "0", "0", "1">>

FileA == <<"0", "0", "2", " - ", "A", ".m3d">>
FileB == <<"B", ".m3d">>
ProjectDir == <<"C", ":", "\\", "proj", "\\">>

\* the instances an assembly is built from: numbered parts, a padded name
\* of the same identity, a purchased part, service instances, shared files
Instances ==
    { [name |-> NameHousing,    marking |-> MkOld,    fileName |-> ProjectDir \o FileA],
      [name |-> NameHousing,    marking |-> MkEmpty,  fileName |-> ProjectDir \o FileB],
      [name |-> NameWall,       marking |-> MkOld,    fileName |-> ProjectDir \o FileB],
      [name |-> NameWall,       marking |-> MkPadded, fileName |-> ProjectDir \o FileA],
      [name |-> NameWall,       marking |-> MkAux,    fileName |-> ProjectDir \o FileA],
      [name |-> NameWallPadded, marking |-> MkPadded, fileName |-> ProjectDir \o FileB],
      [name |-> NameHeat,       marking |-> MkOld,    fileName |-> <<>>],
      [name |-> NameHeat,       marking |-> MkAux,    fileName |-> <<>>] }

\* all sequences over S of length at most n
RECURSIVE SeqsUpTo(_, _)
SeqsUpTo(S, n) ==
    IF n = 0 THEN {<<>>}
    ELSE LET shorter == SeqsUpTo(S, n - 1)
         IN  shorter \cup {Append(q, x) : q \in {r \in shorter : Len(r) = n - 1}, x \in S}

\* all enumeration orders of a finite set
RECURSIVE Orderings(_)
Orderings(S) ==
    IF S = {} THEN {<<>>}
    ELSE UNION {{<<x>> \o q : q \in Orderings(S \ {x})} : x \in S}

(***************************************************************************)
(* update_all_designations: names, keywords, the two instance passes.      *)
(***************************************************************************)
FullName(a)  == a.prefix \o <<".">> \o StrNat(a.H) \o <<".">> \o StrNat(a.B1)
                    \o <<".">> \o StrNat(a.L1)
ShortName(a) == a.prefix \o <<".">> \o StrNat(a.H) \o <<".">> \o StrNat(a.B1)
FullNameWithSb(a) == FullName(a) \o <<" ", "SB">>

PurchasedWords ==
    { <<"teploobmennik">>, <<"ventilyator">>,
      <<"blok", " ", "elektropitaniya">>, <<"blok", " ", "pitaniya">> }
HousingWord == <<"koroba">>

IsPurchased(p_name) == \E w \in PurchasedWords : Contains(Lower(p_name), w)
IsHousing(p_name)   == Contains(Lower(p_name), HousingWord)

\* "if not old_mark or old_mark.startswith('-')": a service instance
IsService(old_mark) == old_mark = <<>> \/ StartsWith(old_mark, <<"-">>)

\* the instance scan "for i in range(100)"
ScanLimit == 100
AsmPartsCount(insts) == IF Len(insts) < ScanLimit THEN Len(insts) ELSE ScanLimit

\* a pass that numbers a name at every encounter
NumberNameEveryTime(nn, p_name) ==
    [name_to_number |-> [n \in DOMAIN nn.name_to_number \cup {p_name} |->
                            IF n = p_name THEN nn.next_number
                            ELSE nn.name_to_number[n]],
     next_number    |-> nn.next_number + 1]

\* "if p_name not in name_to_number: name_to_number[p_name] = next_number;
\*  next_number += 1" on nn = [name_to_number, next_number]
NumberName(nn, p_name) ==
    IF p_name \in DOMAIN nn.name_to_number THEN nn
    ELSE [name_to_number |-> nn.name_to_number @@ (p_name :> nn.next_number),
          next_number    |-> nn.next_number + 1]

\* one part of a loop and then the rest of it: F on the state v that the
\* first part has left
Then(v, F(_)) == CHOOSE r \in {F(x) : x \in {v}} : TRUE

\* a first pass that leaves no instance out
NumberInstanceAll(p, nn) == NumberName(nn, Strip(p.name))

\* the body of the first pass for the instance p
NumberInstance(p, nn) ==
    LET old_mark == Strip(p.marking)
        p_name   == Strip(p.name)
    IN  IF IsService(old_mark) THEN nn ELSE NumberName(nn, p_name)

\* first pass over the instances i..count in order (the first half of
\* them, then the rest): name_to_number, next_number
RECURSIVE FirstPass(_, _, _, _)
FirstPass(insts, count, i, nn) ==
    IF i > count THEN nn
    ELSE IF i = count THEN NumberInstance(insts[i], nn)
    ELSE LET mid == (i + count) \div 2
         IN  Then(FirstPass(insts, mid, i, nn),
                  LAMBDA v : FirstPass(insts, count, mid + 1, v))

\* the housing keyword tested before the purchased keywords
NewMarkHousingFirst(a, p_name, old_mark, part_id) ==
    IF IsHousing(p_name) THEN FullName(a) \o <<".">> \o part_id
    ELSE IF IsPurchased(p_name) THEN old_mark
    ELSE ShortName(a) \o <<".">> \o part_id

\* the designation computed for one instance
NewMark(a, p_name, old_mark, part_id) ==
    IF IsPurchased(p_name) THEN old_mark
    ELSE IF IsHousing(p_name) THEN FullName(a) \o <<".">> \o part_id
    ELSE ShortName(a) \o <<".">> \o part_id

\* a pass that writes every numbered instance
WriteAlways(old_mark, new_mark) == TRUE

\* "if old_mark != new_mark"
NeedsWrite(old_mark, new_mark) == old_mark # new_mark

InMap(f2m, filename) == \E k \in 1..Len(f2m) : f2m[k].filename = filename

\* "if p_filename: ... if filename_normalized not in file_to_marking"
BindInstance(f2m, p_filename, new_mark, p_name, part_id) ==
    IF p_filename = <<>> \/ InMap(f2m, PathName(p_filename)) THEN f2m
    ELSE Append(f2m, [filename |-> PathName(p_filename), marking |-> new_mark,
                      part_name |-> p_name, part_id |-> part_id])

NoLog == [service |-> TRUE, number |-> 0, new_mark |-> <<>>, wrote |-> FALSE]

\* the body of the second pass for instance i: st = [insts, f2m, log]
MarkInstance(a, i, n2n, st) ==
    LET p          == st.insts[i]
        old_mark   == Strip(p.marking)
        p_name     == Strip(p.name)
        p_filename == Strip(p.fileName)
    IN  IF IsService(old_mark)
        THEN [st EXCEPT !.log = Append(@, NoLog)]
        ELSE LET part_id  == Format03d(n2n[p_name])
                 new_mark == NewMark(a, p_name, old_mark, part_id)
                 write    == NeedsWrite(old_mark, new_mark)
             IN  [insts |-> IF write
                            THEN [st.insts EXCEPT ![i].marking = new_mark]
                            ELSE st.insts,
                  f2m   |-> BindInstance(st.f2m, p_filename, new_mark,
                                         p_name, part_id),
                  log   |-> Append(st.log,
                              [service |-> FALSE, number |-> n2n[p_name],
                               new_mark |-> new_mark, wrote |-> write])]

\* second pass over the instances i..count in order
RECURSIVE SecondPass(_, _, _, _, _)
SecondPass(a, count, i, n2n, st) ==
    IF i > count THEN st
    ELSE IF i = count THEN MarkInstance(a, i, n2n, st)
    ELSE LET mid == (i + count) \div 2
         IN  Then(SecondPass(a, mid, i, n2n, st),
                  LAMBDA v : SecondPass(a, count, mid + 1, n2n, v))

(***************************************************************************)
(* update_all_designations: the files of the project folder.               *)
(***************************************************************************)
\* "if ' - ' in file_stem: parts = file_stem.split(' - ', 1)"
HasNumber(file_stem)   == FirstIndex(file_stem, " - ") > 0
BeforeDash(file_stem)  == SubSeq(file_stem, 1, FirstIndex(file_stem, " - ") - 1)
AfterDash(file_stem)   ==
    SubSeq(file_stem, FirstIndex(file_stem, " - ") + 1, Len(file_stem))

\* a part file of the folder that no instance bound
SweepEntry(a, part_file) ==
    LET file_stem   == Stem(part_file)
        part_number == IF HasNumber(file_stem) THEN Strip(BeforeDash(file_stem))
                       ELSE <<"9", "9", "9">>
        part_desc   == IF HasNumber(file_stem) THEN Strip(AfterDash(file_stem))
                       ELSE file_stem
    IN  [filename |-> part_file, marking |-> ShortName(a) \o <<".">> \o part_number,
         part_name |-> part_desc, part_id |-> part_number]

\* "for part_file in all_part_files: if part_file.name not in file_to_marking"
RECURSIVE SweepDisk(_, _, _, _)
SweepDisk(a, all_part_files, j, f2m) ==
    IF j > Len(all_part_files) THEN f2m
    ELSE SweepDisk(a, all_part_files, j + 1,
                   IF InMap(f2m, all_part_files[j]) THEN f2m
                   ELSE Append(f2m, SweepEntry(a, all_part_files[j])))

\* new_filename = f"{part_id} - {file_description}.m3d"
NewFileName(part_id, part_file) ==
    LET file_stem == Stem(part_file)
        file_description == IF HasNumber(file_stem) THEN AfterDash(file_stem)
                            ELSE file_stem
    IN  part_id \o <<" - ">> \o file_description \o <<".m3d">>

\* files_to_rename, collected while the bound files are edited
RECURSIVE FilesToRename(_, _, _)
FilesToRename(f2m, k, files) ==
    IF k > Len(f2m) THEN <<>>
    ELSE LET e == f2m[k]
             new_filename == NewFileName(e.part_id, e.filename)
         IN  (IF e.filename \in files /\ e.filename # new_filename
              THEN <<[old |-> e.filename, new |-> new_filename]>> ELSE <<>>)
             \o FilesToRename(f2m, k + 1, files)

\* old_path.rename(new_path); a missing source or an existing target raises
\* (FileNotFoundError, FileExistsError) and the file is left as it is
RenameFile(files, old, new) ==
    IF old \notin files \/ new \in files THEN files
    ELSE (files \ {old}) \cup {new}

\* the passes and the sweep of a run on (insts, files) with inputs a and
\* folder listing order
DesignationRun(insts, files, a, all_part_files) ==
    LET count == AsmPartsCount(insts)
        nn    == FirstPass(insts, count, 1,
                           [name_to_number |-> <<>>, next_number |-> 1])
        st    == SecondPass(a, count, 1, nn.name_to_number,
                            [insts |-> insts, f2m |-> <<>>, log |-> <<>>])
        f2m   == SweepDisk(a, all_part_files, 1, st.f2m)
    IN  [insts |-> st.insts, name_to_number |-> nn.name_to_number,
         log |-> st.log, file_to_marking |-> f2m]

(***************************************************************************)
(* get_part_quantity_from_assembly.                                        *)
(***************************************************************************)
\* the body of the loop for the instance p
CountInstance(p, part_marking, count) ==
    LET p_marking == Strip(p.marking)
    IN  IF IsService(p_marking) THEN count
        ELSE IF p_marking = part_marking THEN count + 1 ELSE count

\* the instances i..last in order
RECURSIVE CountRange(_, _, _, _, _)
CountRange(insts, i, last, part_marking, count) ==
    IF i > last THEN count
    ELSE IF i = last THEN CountInstance(insts[i], part_marking, count)
    ELSE LET mid == (i + last) \div 2
         IN  Then(CountRange(insts, i, mid, part_marking, count),
                  LAMBDA v : CountRange(insts, mid + 1, last, part_marking, v))

\* "while True: p = iPart_asm.GetPart(i); if not p: break": every instance
CountMarking(insts, i, part_marking, count) ==
    CountRange(insts, i, Len(insts), part_marking, count)

\* a quantity that may be zero
QuantityRaw(count) == count

\* "quantity = count if count > 0 else 1"
QuantityOf(count) == IF count > 0 THEN count ELSE 1

(***************************************************************************)
(* update_project_variables: numbers.  A number is held in tenths with the *)
(* Python type that decides how str() prints it.                           *)
(***************************************************************************)
Int10(i)   == [k |-> "int",   v |-> 10 * i]
Float10(t) == [k |-> "float", v |-> t]
ToFloat(x) == [k |-> "float", v |-> x.v]
JoinKind(x, y) == IF x.k = "int" /\ y.k = "int" THEN "int" ELSE "float"
Minus(x, y) == [k |-> JoinKind(x, y), v |-> x.v - y.v]
Times(x, y) == [k |-> JoinKind(x, y), v |-> (x.v * y.v) \div 10]

\* str() of an int or of a float with one decimal
PyStr(x) ==
    LET a == IF x.v < 0 THEN 0 - x.v ELSE x.v
        sign == IF x.v < 0 THEN <<"-">> ELSE <<>>
    IN  IF x.k = "int" THEN sign \o StrNat(a \div 10)
        ELSE sign \o StrNat(a \div 10) \o <<".", DigitChar(a % 10)>>

(***************************************************************************)
(* update_project_variables: the assembly stage.                           *)
(***************************************************************************)
nH  == <<"H">>
nB1 == <<"B1">>
nL1 == <<"L1">>
nA1 == <<"A1">>
nA2 == <<"A2">>
nA3 == <<"A3">>
nA4 == <<"A4">>
nA5 == <<"A5">>
nB2 == <<"B2">>
nB3 == <<"B3">>
nB4 == <<"B4">>
nB5 == <<"B5">>
nB6 == <<"B6">>
nX  == <<"X">>
nInst == <<"v", "1", "3", "9", "8", "_", "B3">>

Has(m, n) == n \in DOMAIN m
Put(m, n, x) == [q \in DOMAIN m \cup {n} |-> IF q = n THEN x ELSE m[q]]

\* what the try block of one base variable does: it completes, or one of its
\* three writes raises (value, Expression, External)
BaseOutcomes == {"ok", "value_raises", "expression_raises", "external_raises"}

\* one base variable: absent, or written as far as the try block gets
WriteBaseVar(coll, n, var_value, outcome) ==
    IF ~Has(coll, n) \/ outcome = "value_raises" THEN coll
    ELSE IF outcome = "expression_raises"
    THEN [coll EXCEPT ![n].value = ToFloat(Int10(var_value))]
    ELSE IF outcome = "external_raises"
    THEN [coll EXCEPT ![n].value = ToFloat(Int10(var_value)),
                      ![n].Expression = PyStr(Int10(var_value))]
    ELSE [coll EXCEPT ![n] = [value |-> ToFloat(Int10(var_value)),
                              Expression |-> PyStr(Int10(var_value)),
                              External |-> TRUE]]

\* base_vars = {'H': h, 'B1': b1, 'L1': l1}, in that order
WriteBaseVars(coll, a, outcome) ==
    WriteBaseVar(WriteBaseVar(WriteBaseVar(coll, nH, a.h, outcome[nH]),
                              nB1, a.b1, outcome[nB1]),
                 nL1, a.l1, outcome[nL1])

\* a count taken when the variable is found
BaseFound(coll, outcome) == {n \in {nH, nB1, nL1} : Has(coll, n)}

\* "result['assembly_vars_updated'] += 1", reached after the three writes
BaseWritten(coll, outcome) ==
    {n \in {nH, nB1, nL1} : Has(coll, n) /\ outcome[n] = "ok"}

\* the number of rebuild cycles, "for cycle in range(1, 4)"
RebuildCycles == 3

\* a run that reads after its first cycle
AfterCycleOnce(c) == "read"

\* after the settle delay that ends a cycle
AfterCycle(c) == IF c < RebuildCycles THEN "update" ELSE "read"

\* what one rebuild of the CAD engine may do to the assembly's own formulas:
\* one level of recomputation, from the values current before the rebuild
EngineRecompute(coll) ==
    [n \in DOMAIN coll |->
        IF n = nA1 /\ Has(coll, nH) /\ Has(coll, nA2)
        THEN [coll[n] EXCEPT !.value = Minus(coll[nH].value, coll[nA2].value)]
        ELSE IF n = nA4 /\ Has(coll, nA1)
        THEN [coll[n] EXCEPT !.value = Minus(coll[nA1].value, Float10(50))]
        ELSE coll[n]]

\* "all_calculated_vars[name] = value" for every variable of the collection
ReadVariables(coll) == [n \in DOMAIN coll |-> coll[n].value]

\* the hand-written rules, in the order of the source
DeriveA1(m, a) == IF Has(m, nA2) THEN Put(m, nA1, Minus(Int10(a.h), m[nA2])) ELSE m
DeriveA4(m)    == IF Has(m, nA1) THEN Put(m, nA4, Minus(m[nA1], Int10(5))) ELSE m
DeriveA3(m)    ==
    IF ~Has(m, nA1) THEN m
    ELSE IF Has(m, nA3)
         THEN Put(m, nA3, Minus(m[nA1], Minus(m[nA1], m[nA3])))
         ELSE Put(m, nA3, Minus(m[nA1], Int10(20)))
DeriveB3B4(m, a) ==
    IF Has(m, nB2)
    THEN Put(Put(m, nB3, Minus(Minus(Int10(a.b1), Times(m[nB2], Int10(2))), Float10(69))),
             nB4, Minus(Minus(Int10(a.b1), Times(m[nB2], Int10(2))), Float10(25)))
    ELSE m
DeriveB5B6(m, a) ==
    Put(Put(m, nB5, Minus(Int10(a.b1), Int10(4))), nB6, Minus(Int10(a.b1), Int10(60)))
DeriveA5(m) == IF Has(m, nA2) THEN Put(m, nA5, Minus(m[nA2], Float10(15))) ELSE m

\* a derivation that computes A4 from the A1 that was read
DeriveVariablesA4First(m, a) ==
    DeriveA5(DeriveB5B6(DeriveB3B4(DeriveA3(DeriveA1(DeriveA4(m), a)), a), a))

DeriveVariables(m, a) ==
    DeriveA5(DeriveB5B6(DeriveB3B4(DeriveA3(DeriveA4(DeriveA1(m, a))), a), a))

(***************************************************************************)
(* update_project_variables: the part stage.                               *)
(***************************************************************************)
Digits == {"0", "1", "2", "3", "4", "5", "6", "7", "8", "9"}

\* "var_name.startswith('v') and '_' in var_name" and
\* "var_name.split('_')[0][1:].isdigit()"
IsInstanceVar(var_name) ==
    /\ StartsWith(var_name, <<"v">>)
    /\ FirstIndex(var_name, "_") > 0
    /\ LET prefix == SubSeq(var_name, 1, FirstIndex(var_name, "_") - 1)
       IN  Len(prefix) >= 2 /\ \A i \in 2..Len(prefix) : prefix[i] \in Digits

FormulaTokens == {<<"-">>, <<"+">>, <<"*">>, <<"/">>, <<"if">>, <<"?">>}
HasFormula(expr)   == \E op \in FormulaTokens : Contains(expr, op)
HasHyperlink(expr) == Contains(expr, <<":", "\\">>) \/ Contains(expr, <<"|">>)

Outcomes == {"ok", "first_raises", "second_raises"}

\* the body of "if var_in_part:" for one variable; the two writes of a branch
\* are guarded by one try, so the first may raise, or the second
WriteVar(var, var_value, outcome) ==
    LET current_expr == var.Expression
        branch ==
          IF HasHyperlink(current_expr) \/ ~HasFormula(current_expr)
          THEN \* Expression = str(var_value); value = var_value
               IF outcome = "first_raises" THEN var
               ELSE IF outcome = "second_raises"
                    THEN [var EXCEPT !.Expression = PyStr(var_value)]
                    ELSE [var EXCEPT !.Expression = PyStr(var_value),
                                     !.value = var_value]
          ELSE \* Expression = ""; Expression = saved_formula
               IF outcome = "second_raises" THEN [var EXCEPT !.Expression = <<>>]
               ELSE var
    IN  [branch EXCEPT !.External = TRUE]

\* a loop body that adds the variable when the part does not have it
UpdatePartVarCreating(coll, var_name, var_value, outcome) ==
    IF IsInstanceVar(var_name) THEN coll
    ELSE Put(coll, var_name,
             IF Has(coll, var_name) THEN WriteVar(coll[var_name], var_value, outcome)
             ELSE [value |-> var_value, Expression |-> PyStr(var_value),
                   External |-> TRUE])

\* a loop body that also writes the variables of instances
UpdatePartVarNoSkip(coll, var_name, var_value, outcome) ==
    IF ~Has(coll, var_name) THEN coll
    ELSE [coll EXCEPT ![var_name] = WriteVar(coll[var_name], var_value, outcome)]

\* the loop body for one (var_name, var_value) of all_calculated_vars
UpdatePartVar(coll, var_name, var_value, outcome) ==
    IF IsInstanceVar(var_name) THEN coll
    ELSE IF ~Has(coll, var_name) THEN coll
    ELSE [coll EXCEPT ![var_name] = WriteVar(coll[var_name], var_value, outcome)]

\* the variables of the part the loop reaches
Touched(coll, m) == {n \in DOMAIN m : ~IsInstanceVar(n) /\ Has(coll, n)}

RECURSIVE UpdatePartVars(_, _, _, _)
UpdatePartVars(coll, m, todo, outcome) ==
    IF todo = {} THEN coll
    ELSE LET n == CHOOSE q \in todo : TRUE
             o == IF n \in DOMAIN outcome THEN outcome[n] ELSE "ok"
         IN  UpdatePartVars(UpdatePartVar(coll, n, m[n], o), m, todo \ {n}, outcome)

\* "part_files = [p for p in part_files if not p.stem.startswith('-')]"
IsAuxiliaryFile(part_file) == StartsWith(Stem(part_file), <<"-">>)

\* the spacer, re-opened after its save: the two spellings the code tests
IsSpacer(part_file) ==
    Contains(part_file, <<"Rasporka">>) \/ Contains(part_file, <<"rasporka">>)

(***************************************************************************)
(* The CAD session.  What is done to documents and files is kept in order: *)
(* [op |-> "open" | "marking" | "update" | "rebuild_model" |               *)
(* "rebuild_document" | "save" | "close" | "rename" | "rename_exists" |    *)
(* "rename_missing" | "unlink", doc |-> the file name,                     *)
(* to |-> the new name of a rename], from the start of the handler running *)
(* or run last.  A call that raises has not had its effect.                *)
(***************************************************************************)
Op(o, d) == [op |-> o, doc |-> d, to |-> <<>>]

\* application.Documents after the first k operations of s
RECURSIVE DocumentsUpTo(_, _)
DocumentsUpTo(s, k) ==
    IF k = 0 THEN {}
    ELSE IF s[k].op = "open" THEN DocumentsUpTo(s, k - 1) \cup {s[k].doc}
    ELSE IF s[k].op = "close" THEN DocumentsUpTo(s, k - 1) \ {s[k].doc}
    ELSE DocumentsUpTo(s, k - 1)

\* application.Documents after the operations s
Documents(s) == DocumentsUpTo(s, Len(s))

\* the open document of docs that was opened last, among the first k
\* operations of s; <<>> for None
RECURSIVE LastOpened(_, _, _)
LastOpened(s, k, docs) ==
    IF k = 0 THEN <<>>
    ELSE IF s[k].op = "open" /\ s[k].doc \in docs THEN s[k].doc
    ELSE LastOpened(s, k - 1, docs)

\* application.ActiveDocument
ActiveDocument(s) == LastOpened(s, Len(s), Documents(s))

\* ActiveDocument.Close(...) that does not raise
CloseDocument(s, d) == IF d = <<>> THEN s ELSE Append(s, Op("close", d))
CloseActive(s) == CloseDocument(s, ActiveDocument(s))

\* close_all_documents, with which every handler begins: doc.Close(False)
\* for every document; a Close that raises is logged and its document
\* stays.  The log starts anew with the documents that stayed.
CloseAll(s, stay) ==
    SelectSeq(s, LAMBDA e : e.op = "open" /\ e.doc \in Documents(s) \cap stay)

\* open_document: True; False with nothing opened; False after Documents.Open
\* has opened the document (making it active, or reading its Name, raised)
OpenOutcomes == {"opened", "failed", "left_open"}
OpenDocument(s, d, outcome) ==
    IF outcome = "failed" THEN s ELSE Append(s, Op("open", d))

\* "try: api7.ActiveDocument.Close(False) except: pass" of an error handler
HandlerClose(s, closes) == IF closes THEN CloseActive(s) ELSE s

\* what becomes of one part file between its open_document and the end of
\* the loop body
PartOutcomes ==
    {"open_fails", "left_open", "no_document", "ok", "rebuild_raises",
     "save_raises", "reopen_fails", "reopen_raises"}
PartRaises == {"rebuild_raises", "save_raises", "reopen_raises"}

\* the outcomes a part file can have
PartOutcomesOf(part_file, updated_in_part) ==
    {"open_fails", "left_open", "no_document", "ok"}
        \cup (IF updated_in_part > 0 THEN {"rebuild_raises", "save_raises"} ELSE {})
        \cup (IF updated_in_part > 0 /\ IsSpacer(part_file)
              THEN {"reopen_fails", "reopen_raises"} ELSE {})

\* Update(), RebuildModel(), RebuildDocument() on the document d, n times
RECURSIVE PartRebuild(_, _, _)
PartRebuild(s, d, n) ==
    IF n = 0 THEN s
    ELSE PartRebuild(s \o <<Op("update", d), Op("rebuild_model", d),
                             Op("rebuild_document", d)>>, d, n - 1)

\* "if updated_in_part > 0:" up to the first Close(True)
PartFirstSave(s, part_file) ==
    CloseActive(Append(PartRebuild(s, part_file, 1), Op("save", part_file)))

\* a re-opened spacer that is rebuilt once
PartSecondSaveOnce(s, part_file) ==
    CloseActive(Append(PartRebuild(s, part_file, 1), Op("save", part_file)))

\* the spacer after open_document has opened it again: range(3), Save,
\* Close(True)
SpacerCycles == 3
PartSecondSave(s, part_file) ==
    CloseActive(Append(PartRebuild(s, part_file, SpacerCycles),
                       Op("save", part_file)))

\* the document operations of one pass of the loop body
PartOps(s, part_file, how, updated_in_part, handler_closes) ==
    LET opened == Append(s, Op("open", part_file))
    IN  CASE how = "open_fails"  -> s
          [] how = "left_open"   -> opened
          [] how = "no_document" -> CloseActive(opened)
          [] how = "ok" ->
               IF updated_in_part = 0 THEN CloseActive(opened)
               ELSE IF IsSpacer(part_file)
               THEN PartSecondSave(Append(PartFirstSave(opened, part_file),
                                          Op("open", part_file)), part_file)
               ELSE PartFirstSave(opened, part_file)
          [] how = "rebuild_raises" -> HandlerClose(opened, handler_closes)
          [] how = "save_raises" ->
               HandlerClose(PartRebuild(opened, part_file, 1), handler_closes)
          [] how = "reopen_fails" -> PartFirstSave(opened, part_file)
          [] how = "reopen_raises" ->
               HandlerClose(Append(PartFirstSave(opened, part_file),
                                   Op("open", part_file)),
                            handler_closes)

\* the part file was saved with its new values
PartSaved(how, updated_in_part) ==
    updated_in_part > 0 /\ how \in {"ok", "reopen_fails", "reopen_raises"}

\* "result['parts_updated'] += 1" was reached
PartCounted(how, updated_in_part) ==
    updated_in_part > 0 /\ how \in {"ok", "reopen_fails"}

\* a loop that gives up at the first part file that raises
RestAfterAbort(rest, part_file, how) ==
    IF how \in PartRaises \cup {"open_fails", "left_open", "no_document"} THEN {}
    ELSE rest \ {part_file}

\* "continue", the end of the loop body and the except clause of the loop
\* body all lead to the next part file
RestAfter(rest, part_file, how) == rest \ {part_file}

\* one cycle of the final rebuild, and the cycles in a row
RebuildCycle ==
    <<"Update", "sleep", "RebuildModel", "sleep", "RebuildDocument", "sleep">>
FinalCycles == 3
RECURSIVE Cycles(_)
Cycles(n) == IF n = 0 THEN <<>> ELSE RebuildCycle \o Cycles(n - 1)

(***************************************************************************)
(* update_all_designations: the assembly file, the part files as they are  *)
(* edited and renamed, the drawings.                                       *)
(***************************************************************************)
\* new_assembly_name = f"{project_prefix}.{H}.{B1}.{L1} SB.a3d"
NewAssemblyName(a) == FullNameWithSb(a) \o <<".a3d">>

\* str(n) for an integer n
StrInt(n) == IF n < 0 THEN <<"-">> \o StrNat(0 - n) ELSE StrNat(n)

\* s.split(sep)
RECURSIVE Split(_, _)
Split(s, sep) ==
    IF FirstIndex(s, sep) = 0 THEN <<s>>
    ELSE <<SubSeq(s, 1, FirstIndex(s, sep) - 1)>>
             \o Split(SubSeq(s, FirstIndex(s, sep) + 1, Len(s)), sep)

\* s.split(): the words between runs of blanks
Words(s) == SelectSeq(Split(s, " "), LAMBDA w : w # <<>>)

\* sep.join(ws)
RECURSIVE Join(_, _)
Join(ws, sep) ==
    IF ws = <<>> THEN <<>>
    ELSE IF Len(ws) = 1 THEN ws[1]
    ELSE ws[1] \o <<sep>> \o Join(Tail(ws), sep)

\* a heat exchanger whose length field becomes L1
HeatMarkingWhole(old_marking, a) ==
    LET old_parts == Words(old_marking)
    IN  IF Len(old_parts) >= 2 /\ FirstIndex(old_parts[1], ".") > 0
        THEN LET size_parts == Split(old_parts[1], ".")
             IN  IF Len(size_parts) = 3
                 THEN Join([size_parts EXCEPT ![3] = StrInt(a.L1)], ".")
                          \o <<" ">> \o Join(Tail(old_parts), " ")
                 ELSE old_marking
        ELSE old_marking

\* the heat exchanger's designation: the length field becomes L1 - 300
HeatMarking(old_marking, a) ==
    LET old_parts == Words(old_marking)
    IN  IF Len(old_parts) >= 2 /\ FirstIndex(old_parts[1], ".") > 0
        THEN LET size_parts == Split(old_parts[1], ".")
             IN  IF Len(size_parts) = 3
                 THEN Join([size_parts EXCEPT ![3] = StrInt(a.L1 - 300)], ".")
                          \o <<" ">> \o Join(Tail(old_parts), " ")
                 ELSE old_marking
        ELSE old_marking

HeatWord == <<"teploobmennik">>
UnchangedWords ==
    { <<"ventilyator">>, <<"blok", " ", "elektropitaniya">>, <<"blok", " ", "pitaniya">> }

\* new_marking of a part file, by the words of its file name
PartMarking(filename, old_marking, marking, a) ==
    IF Contains(Lower(filename), HeatWord) THEN HeatMarking(old_marking, a)
    ELSE IF \E w \in UnchangedWords : Contains(Lower(filename), w) THEN old_marking
    ELSE marking

\* what the session may do to one run: Save of the assembly with its
\* instances raises; Save of one part file raises; the Close of the part
\* loop's error handler closes the document or raises as well
NoFault == [asm_save_raises |-> FALSE, part_file |-> <<>>, handler_closes |-> TRUE]
Faults(files, wrote) ==
    {NoFault}
        \cup (IF wrote THEN {[NoFault EXCEPT !.asm_save_raises = TRUE]} ELSE {})
        \cup {[NoFault EXCEPT !.part_file = f, !.handler_closes = c] :
                 f \in files, c \in BOOLEAN}

\* the part edit loop from entry k on; st = [log, marks, renamed_count, errors]
RECURSIVE EditParts(_, _, _, _, _, _)
EditParts(f2m, k, files, a, fault, st) ==
    IF k > Len(f2m) THEN st
    ELSE LET e == f2m[k]
             opened == Append(st.log, Op("open", e.filename))
             wrote  == Append(opened, Op("marking", e.filename))
         IN  IF e.filename \notin files
             THEN EditParts(f2m, k + 1, files, a, fault, st)
             ELSE IF fault.part_file = e.filename
             THEN EditParts(f2m, k + 1, files, a, fault,
                    [st EXCEPT !.log = HandlerClose(wrote, fault.handler_closes),
                               !.errors = @ + 1])
             ELSE EditParts(f2m, k + 1, files, a, fault,
                    [st EXCEPT !.log = CloseActive(Append(wrote, Op("save", e.filename))),
                               !.marks = [@ EXCEPT ![e.filename] =
                                   PartMarking(e.filename, @, e.marking, a)],
                               !.renamed_count = @ + 1])

\* the entries whose edit reached "files_to_rename.append"
Edited(f2m, fault) == SelectSeq(f2m, LAMBDA e : e.filename # fault.part_file)

\* what one "old_path.rename(new_path)" leaves in the log
RenameEvent(files, old, new) ==
    IF old \notin files THEN [op |-> "rename_missing", doc |-> old, to |-> new]
    ELSE IF new \in files THEN [op |-> "rename_exists", doc |-> old, to |-> new]
    ELSE [op |-> "rename", doc |-> old, to |-> new]

\* the renames of files_to_rename with their log; st = [files, log]
RECURSIVE RenameParts(_, _, _)
RenameParts(plan, k, st) ==
    IF k > Len(plan) THEN st
    ELSE RenameParts(plan, k + 1,
            [files |-> RenameFile(st.files, plan[k].old, plan[k].new),
             log   |-> Append(st.log, RenameEvent(st.files, plan[k].old, plan[k].new))])

\* what is kept per file name follows the file to its new name
RECURSIVE Rekey(_, _, _, _)
Rekey(m, plan, k, files) ==
    IF k > Len(plan) THEN m
    ELSE LET old == plan[k].old
             new == plan[k].new
             moved == old \in files /\ new \notin files /\ old \in DOMAIN m
         IN  Rekey(IF moved
                   THEN [f \in (DOMAIN m \ {old}) \cup {new} |->
                            IF f = new THEN m[old] ELSE m[f]]
                   ELSE m,
                   plan, k + 1, RenameFile(files, old, new))

AssemblyDrawingWords == { <<"konvektor">>, <<"sborochnyj">>, <<"sborka">> }
IsAssemblyDrawing(old_name) ==
    \E w \in AssemblyDrawingWords : Contains(Lower(old_name), w)

\* new_drawing_name of one drawing
NewDrawingName(a, old_name) ==
    IF IsAssemblyDrawing(old_name)
    THEN IF HasNumber(old_name)
         THEN FullNameWithSb(a) \o <<" - ">> \o AfterDash(old_name)
         ELSE FullNameWithSb(a) \o <<" - ">> \o old_name
    ELSE LET file_stem == Stem(old_name)
         IN  IF HasNumber(file_stem)
             THEN Strip(BeforeDash(file_stem)) \o <<" - ">>
                      \o Strip(AfterDash(file_stem)) \o <<".cdw">>
             ELSE old_name

\* one drawing: "if new_drawing_path.exists(): unlink()" and the rename;
\* st = [files, log, drawings_renamed]
RenameDrawing(a, drw_file, st) ==
    LET new_drawing_name == NewDrawingName(a, drw_file)
        present == new_drawing_name \in st.files
        files1  == st.files \ {new_drawing_name}
        log1    == IF present THEN Append(st.log, Op("unlink", new_drawing_name))
                   ELSE st.log
    IN  IF drw_file = new_drawing_name THEN st
        ELSE [files |-> RenameFile(files1, drw_file, new_drawing_name),
              log   |-> Append(log1, RenameEvent(files1, drw_file, new_drawing_name)),
              drawings_renamed |->
                  IF drw_file \in files1 THEN st.drawings_renamed + 1
                  ELSE st.drawings_renamed]

RECURSIVE RenameDrawings(_, _, _, _)
RenameDrawings(a, all_drawings, k, st) ==
    IF k > Len(all_drawings) THEN st
    ELSE RenameDrawings(a, all_drawings, k + 1, RenameDrawing(a, all_drawings[k], st))

(***************************************************************************)
(* State.                                                                  *)
(***************************************************************************)
VARIABLES
    parts,            \* the assembly's instances: name, marking, fileName
    disk,             \* the .m3d file names of the project folder
    asm_files,        \* the .a3d file names of the project folder
    asm_marking,      \* marking of the assembly's top part
    run,              \* completed runs of update_all_designations
    args,             \* inputs of the last run
    prev_args,        \* inputs of the run before it
    before,           \* the instances as the last run found them
    name_to_number,   \* of the last run
    file_to_marking,  \* of the last run, in insertion order
    inst_log,         \* per instance: what the second pass computed and did
    drawings,         \* the .cdw file names of the project folder
    file_marks,       \* the designation stored in every part file
    d_result,         \* the result record of the last run
    faulty,           \* whether a call on the CAD session may still raise
    qty,              \* the last quantity query and its result
    ops,              \* the CAD session: document and file operations, in order
    pc,               \* position of update_project_variables
    pv_args,          \* its inputs h, b1, l1
    assembly_file,    \* the assembly file it works on
    cycle,            \* the rebuild cycle in progress
    events,           \* calls made on the assembly document, in order
    asm_vars,         \* the assembly's variable collection
    base_outcome,     \* how the write of each base variable ended
    read_vars,        \* all_calculated_vars as read, before the rules
    all_calculated_vars,
    part_vars,        \* the variable collection of every part file
    remaining,        \* part files the loop has not reached
    part_log,         \* how the loop body ended for each part file reached
    result,           \* the result record
    is_processing,    \* the GUI's flag of a running operation
    cancel_requested, \* the GUI's cancellation flag
    cancel_btn,       \* state of the cancel button
    workers,          \* the worker threads started: operation, position, steps
    accepted,         \* per worker, its steps started when a cancel was accepted
    dxf_folder,       \* the DXF folder: whether it exists, its .dxf file names
    dxf_log,          \* per flat pattern of the last rename_dxf_files: what was done
    dxf_result        \* the result record of the last rename_dxf_files

vars == <<parts, disk, asm_files, asm_marking, run, args, prev_args, before,
          name_to_number, file_to_marking, inst_log, drawings, file_marks,
          d_result, faulty, qty, ops,
          pc, pv_args, assembly_file, cycle, events, asm_vars, base_outcome,
          read_vars, all_calculated_vars, part_vars, remaining, part_log, result,
          is_processing, cancel_requested, cancel_btn, workers, accepted,
          dxf_folder, dxf_log, dxf_result>>

guiVars == <<is_processing, cancel_requested, cancel_btn, workers, accepted>>

dxfVars == <<dxf_folder, dxf_log, dxf_result>>

\* the GUI as constructed: no operation running, the cancel button disabled
GuiIdle ==
    /\ is_processing = FALSE
    /\ cancel_requested = FALSE
    /\ cancel_btn = "disabled"
    /\ workers = <<>>
    /\ accepted = <<>>

propVars == <<pc, pv_args, assembly_file, cycle, events, asm_vars, base_outcome,
              read_vars, all_calculated_vars, part_vars, remaining, part_log,
              result>>

desigVars == <<parts, disk, asm_files, asm_marking, run, args, prev_args, before,
               name_to_number, file_to_marking, inst_log, drawings, file_marks,
               d_result, faulty>>

\* what update_all_designations leaves alone of the other handlers' state
pipeVars == <<pc, pv_args, assembly_file, cycle, events, asm_vars, base_outcome,
              read_vars, all_calculated_vars, remaining, part_log, result>>

DxfMissing == [exists |-> FALSE, files |-> {}]
DxfFolder(S) == [exists |-> TRUE, files |-> S]
NoDxfResult == [calls |-> 0, success |-> FALSE, renamed_count |-> 0, errors |-> <<>>]

\* no run of rename_dxf_files, no DXF folder
NoDxfRun ==
    /\ dxf_folder = DxfMissing
    /\ dxf_log = <<>>
    /\ dxf_result = NoDxfResult

NoArgs == [H |-> 0, B1 |-> 0, L1 |-> 0, prefix |-> <<>>]
NoPvArgs == [h |-> 0, b1 |-> 0, l1 |-> 0]
NoResult == [success |-> FALSE, assembly_vars_updated |-> 0, parts_updated |-> 0,
             total_vars_in_parts |-> 0, errors |-> 0]
NoDResult == [success |-> FALSE, assembly_renamed |-> FALSE, parts_renamed |-> 0,
              drawings_renamed |-> 0, errors |-> 0, error |-> "None"]
NoQty  == [called |-> FALSE, part_marking |-> <<>>, opened |-> FALSE, quantity |-> 0]

AsmOld == <<"OLD", ".a3d">>

\* no run of update_all_designations yet
NoDesignationRun ==
    /\ run = 0
    /\ args = NoArgs
    /\ prev_args = NoArgs
    /\ before = <<>>
    /\ name_to_number = <<>>
    /\ file_to_marking = <<>>
    /\ inst_log = <<>>
    /\ d_result = NoDResult

\* update_project_variables not called, on a project without variables
NoVariablesRun ==
    /\ pc = "idle"
    /\ pv_args = NoPvArgs
    /\ assembly_file = <<>>
    /\ cycle = 0
    /\ events = <<>>
    /\ asm_vars = <<>>
    /\ base_outcome = <<>>
    /\ read_vars = <<>>
    /\ all_calculated_vars = <<>>
    /\ part_vars = <<>>
    /\ remaining = {}
    /\ part_log = <<>>
    /\ result = NoResult

InitDesignation ==
    /\ parts \in SeqsUpTo(Instances, MaxInst)
    /\ disk = {FileA, FileB}
    /\ file_marks = [f \in {FileA, FileB} |-> MkOld]
    /\ drawings = {}
    /\ faulty = FALSE
    /\ asm_files = {AsmOld}
    /\ asm_marking = <<"OLD", " ", "SB">>
    /\ NoDesignationRun
    /\ qty = NoQty
    /\ ops = <<>>
    /\ NoVariablesRun
    /\ GuiIdle
    /\ NoDxfRun

\* a run that reports success although it found no assembly file
NoAssemblyResultSuccess == [NoDResult EXCEPT !.success = TRUE]

\* "if not assembly_files: result['error'] = ...; return result"
NoAssemblyResult == [NoDResult EXCEPT !.error = "no assembly file"]

\* documents whose Close raises inside close_all_documents
Stays(s) == IF faulty THEN SUBSET Documents(s) ELSE {{}}

\* one call of update_all_designations, from connect to the result
UpdateAllDesignations ==
    /\ run < MaxRuns
    /\ pc \in {"idle", "done"}
    /\ run' = run + 1
    /\ \E stay \in Stays(ops) :
       \E s0 \in {CloseAll(ops, stay)} :
         IF asm_files = {}
         THEN /\ d_result' = NoAssemblyResult
              /\ ops' = s0
              /\ faulty' = (faulty /\ stay = {})
              /\ UNCHANGED <<parts, disk, asm_files, asm_marking, args, prev_args,
                             before, name_to_number, file_to_marking, inst_log,
                             drawings, file_marks, part_vars>>
         ELSE \E a \in Inputs, all_part_files \in Orderings(disk),
                 all_drawings \in Orderings(drawings), f \in asm_files :
              \E r \in {DesignationRun(parts, disk, a, all_part_files)},
                 asm \in {[files |-> IF f = NewAssemblyName(a) THEN asm_files
                                     ELSE RenameFile(asm_files, f, NewAssemblyName(a)),
                           log   |-> IF f = NewAssemblyName(a) THEN s0
                                     ELSE Append(s0, RenameEvent(asm_files, f,
                                                                 NewAssemblyName(a)))]} :
              \E f1 \in {IF f \in asm.files THEN f ELSE NewAssemblyName(a)},
                 f2 \in asm.files,
                 fault \in IF faulty
                           THEN Faults(disk, \E i \in 1..Len(r.log) : r.log[i].wrote)
                           ELSE {NoFault} :
              \E s2 \in {LET s1 == CloseActive(Append(Append(Append(asm.log,
                                       Op("open", f1)), Op("marking", f1)),
                                       Op("save", f1)))
                             wrote == Append(Append(s1, Op("open", f2)),
                                             Op("marking", f2))
                         IN  IF fault.asm_save_raises THEN wrote
                             ELSE IF \E i \in 1..Len(r.log) : r.log[i].wrote
                             THEN CloseActive(Append(wrote, Op("save", f2)))
                             ELSE CloseActive(Append(s1, Op("open", f2)))} :
              \E ed \in {EditParts(r.file_to_marking, 1, disk, a, fault,
                                   [log |-> s2, marks |-> file_marks,
                                    renamed_count |-> 0, errors |-> 0])},
                 plan \in {FilesToRename(Edited(r.file_to_marking, fault), 1, disk)} :
              \E rn \in {RenameParts(plan, 1, [files |-> disk, log |-> ed.log])} :
              \E dr \in {RenameDrawings(a, all_drawings, 1,
                                        [files |-> drawings, log |-> rn.log,
                                         drawings_renamed |-> 0])} :
                 /\ faulty' = (faulty /\ stay = {} /\ fault = NoFault)
                 /\ asm_files' = asm.files
                 /\ asm_marking' = FullNameWithSb(a)
                 /\ parts' = IF fault.asm_save_raises THEN parts ELSE r.insts
                 /\ name_to_number' = r.name_to_number
                 /\ file_to_marking' = r.file_to_marking
                 /\ inst_log' = r.log
                 /\ args' = a
                 /\ prev_args' = args
                 /\ before' = parts
                 /\ disk' = rn.files
                 /\ file_marks' = Rekey(ed.marks, plan, 1, disk)
                 /\ part_vars' = Rekey(part_vars, plan, 1, disk)
                 /\ drawings' = dr.files
                 /\ ops' = dr.log
                 /\ d_result' =
                      [success |-> TRUE, assembly_renamed |-> TRUE,
                       parts_renamed |-> ed.renamed_count,
                       drawings_renamed |-> dr.drawings_renamed,
                       errors |-> ed.errors
                                  + (IF fault.asm_save_raises THEN 1 ELSE 0)
                                  + (IF f # NewAssemblyName(a) /\ f \in asm.files
                                     THEN 1 ELSE 0),
                       error |-> "None"]
    /\ UNCHANGED <<qty, pipeVars, guiVars, dxfVars>>

\* the designations a caller may ask about
QueryMarkings ==
    {parts[i].marking : i \in 1..Len(parts)}
        \cup {Strip(parts[i].marking) : i \in 1..Len(parts)}
        \cup {<<"X", ".", "0", "0", "3">>}

\* one call; the assembly opens or it does not
GetPartQuantity ==
    /\ \E part_marking \in QueryMarkings, opened \in BOOLEAN :
         qty' = [called |-> TRUE, part_marking |-> part_marking, opened |-> opened,
                 quantity |-> IF opened
                              THEN QuantityOf(CountMarking(parts, 1, part_marking, 0))
                              ELSE 1]
    /\ UNCHANGED <<desigVars, ops, propVars, guiVars, dxfVars>>

NextDesignation == UpdateAllDesignations

SpecDesignation == InitDesignation /\ [][NextDesignation]_vars

(***************************************************************************)
(* update_all_designations on project folders with drawings, with a file   *)
(* already at a new name, and on a session whose calls may raise.          *)
(***************************************************************************)
FileTaken == <<"0", "0", "1", " - ", "A", ".m3d">>
FileHeat  == <<"0", "0", "5", " - ", "Teploobmennik", ".m3d">>
MkHeat    == <<"ZVD", ".", "TO", ".", "1", "1", "0", "0", " ", "TO", " ", "1">>

DrwA      == <<"0", "0", "2", " - ", "A", ".cdw">>
DrwPadded == <<"0", "0", "2", " - ", " ", "A", ".cdw">>
DrwAsm    == <<"OLD", " - ", "Sborka", ".cdw">>
DrwPlain  == <<"Sborka", ".cdw">>

\* the assemblies of these folders
FileAssemblies ==
    { <<>>,
      <<[name |-> NameHousing, marking |-> MkOld, fileName |-> ProjectDir \o FileA]>>,
      <<[name |-> NameWall,    marking |-> MkOld, fileName |-> ProjectDir \o FileB],
        [name |-> NameHousing, marking |-> MkOld, fileName |-> ProjectDir \o FileA]>> }

FileFolders == { {FileA, FileB}, {FileA, FileTaken}, {FileA, FileHeat} }
DrawingFolders == { {DrwPlain}, {DrwA, DrwAsm}, {DrwA, DrwPadded} }
AssemblyFolders ==
    { {AsmOld},
      {AsmOld, NewAssemblyName([H |-> 160, B1 |-> 350, L1 |-> 2600,
                                prefix |-> PrefixLite])} }

InitFiles ==
    /\ parts \in FileAssemblies
    /\ disk \in FileFolders
    /\ file_marks = [f \in disk |-> IF f = FileHeat THEN MkHeat ELSE MkOld]
    /\ drawings \in DrawingFolders
    /\ faulty = TRUE
    /\ asm_files \in AssemblyFolders
    /\ asm_marking = <<"OLD", " ", "SB">>
    /\ NoDesignationRun
    /\ qty = NoQty
    /\ ops = <<>>
    /\ NoVariablesRun
    /\ GuiIdle
    /\ NoDxfRun

SpecFiles == InitFiles /\ [][NextDesignation]_vars

\* assemblies a quantity is asked of: also instances that carry designations
MkFirst  == <<"X", ".", "0", "0", "1">>
MkSecond == <<"X", ".", "0", "0", "2">>
DesignatedInstances ==
    { [name |-> NameWall,    marking |-> MkFirst,  fileName |-> ProjectDir \o FileA],
      [name |-> NameWall,    marking |-> <<" ">> \o MkFirst \o <<" ">>,
                                                   fileName |-> ProjectDir \o FileA],
      [name |-> NameHousing, marking |-> MkSecond, fileName |-> ProjectDir \o FileB] }

InitQuantity ==
    /\ parts \in SeqsUpTo(Instances \cup DesignatedInstances, MaxInst)
    /\ disk = {FileA, FileB}
    /\ file_marks = [f \in {FileA, FileB} |-> MkOld]
    /\ drawings = {}
    /\ faulty = FALSE
    /\ asm_files = {AsmOld}
    /\ asm_marking = <<"OLD", " ", "SB">>
    /\ NoDesignationRun
    /\ qty = NoQty
    /\ ops = <<>>
    /\ NoVariablesRun
    /\ GuiIdle
    /\ NoDxfRun

NextQuantity == GetPartQuantity

SpecQuantity == InitQuantity /\ [][NextQuantity]_vars

(***************************************************************************)
(* update_project_variables on one project.                                *)
(***************************************************************************)
PvInputs == { [h |-> 160, b1 |-> 350, l1 |-> 2600],
              [h |-> 129, b1 |-> 160, l1 |-> 1400] }

Variable(t, expr) == [value |-> Float10(t), Expression |-> expr, External |-> FALSE]

\* the assembly always holds these variables ...
AsmAlways ==
    (nH :> Variable(1500, <<"1", "5", "0">>))
    @@ (nL1 :> Variable(20000, <<"2", "0", "0", "0">>))
    @@ (nX :> Variable(77, <<"7", ".", "7">>))
    @@ (nInst :> Variable(2931, <<"2", "9", "3", ".", "1">>))
\* ... and any of these
AsmOptional ==
    (nB1 :> Variable(3000, <<"3", "0", "0">>))
    @@ (nA1 :> Variable(1200, <<"H", "-", "A2">>))
    @@ (nA2 :> Variable(300, <<"3", "0">>))
    @@ (nA3 :> Variable(1000, <<"A1", "-", "2", "0">>))
    @@ (nA4 :> Variable(1150, <<"A1", "-", "5">>))
    @@ (nB2 :> Variable(400, <<"4", "0">>))

\* the assemblies the runs start from: which of the optional variables exist
AsmVariants ==
    { DOMAIN AsmOptional, {}, {nB1, nA1, nA3, nA4}, {nB1, nA2},
      {nA1, nA2, nA4, nB2}, {nB1, nA1, nB2} }

PartKorpus   == <<"0", "0", "1", " - ", "Korpus", ".m3d">>
PartRasporka == <<"0", "0", "3", " - ", "Rasporka", ".m3d">>
PartAux      == <<"-", "aux", ".m3d">>
PartFiles    == {PartKorpus, PartRasporka, PartAux}

InitPartVars ==
    (PartKorpus :>
        ((nA1 :> Variable(1200, <<"1", "2", "0", ".", "0">>))
         @@ (nA4 :> Variable(1150, <<"A1", "-", "5">>))))
    @@ (PartRasporka :>
        ((nA3 :> Variable(1000, <<"A1", "-", "2", "0">>))
         @@ (nB5 :> Variable(0, <<"C", ":", "\\", "lib", "|", "B5">>))
         @@ (nB6 :> Variable(2400, <<"B1", "-", "6", "0", "|", "x">>))
         @@ (nInst :> Variable(1000, <<"1", "0", "0", ".", "0">>))))
    @@ (PartAux :>
        (nA1 :> Variable(1200, <<"1", "2", "0", ".", "0">>)))

\* a document the operator has left open in the CAD application
OtherDoc == <<"Other", ".cdw">>

InitVariables ==
    /\ parts = <<>>
    /\ disk = PartFiles
    /\ file_marks = [f \in PartFiles |-> MkOld]
    /\ drawings = {}
    /\ faulty = TRUE
    /\ asm_files \in {{}, {AsmOld}}
    /\ asm_marking = <<"OLD", " ", "SB">>
    /\ NoDesignationRun
    /\ qty = NoQty
    /\ \E S \in AsmVariants :
         /\ asm_vars = AsmAlways @@ [n \in S |-> AsmOptional[n]]
         /\ ops \in IF S = {} THEN {<<>>, <<Op("open", OtherDoc)>>} ELSE {<<>>}
    /\ pc = "idle"
    /\ pv_args = NoPvArgs
    /\ assembly_file = <<>>
    /\ cycle = 0
    /\ events = <<>>
    /\ base_outcome = <<>>
    /\ read_vars = <<>>
    /\ all_calculated_vars = <<>>
    /\ part_vars = InitPartVars
    /\ remaining = {}
    /\ part_log = <<>>
    /\ result = NoResult
    /\ GuiIdle
    /\ NoDxfRun

AssemblyStage ==
    {"base", "update", "sleep_update", "rebuild_model", "sleep_model",
     "rebuild_doc", "sleep_doc", "read", "derive", "save", "close"}

\* connect, close_all_documents, find the assembly, open it
Start ==
    /\ pc = "idle"
    /\ \E a \in PvInputs, connected \in BOOLEAN :
         /\ pv_args' = a
         /\ IF ~connected
            THEN /\ pc' = "done"
                 /\ result' = [NoResult EXCEPT !.errors = 1]
                 /\ UNCHANGED <<ops, events, assembly_file>>
            ELSE \E stay \in SUBSET Documents(ops) :
                   IF asm_files = {}
                   THEN \* list(...glob("*.a3d"))[0] raises IndexError
                        /\ pc' = "done"
                        /\ result' = [NoResult EXCEPT !.errors = 1]
                        /\ ops' = CloseAll(ops, stay)
                        /\ UNCHANGED <<events, assembly_file>>
                   ELSE \E f \in asm_files, outcome \in OpenOutcomes :
                          /\ assembly_file' = f
                          /\ ops' = OpenDocument(CloseAll(ops, stay), f, outcome)
                          /\ IF outcome = "opened"
                             THEN /\ pc' = "base"
                                  /\ events' = <<"open">>
                                  /\ result' = NoResult
                             ELSE /\ pc' = "done"
                                  /\ events' = <<>>
                                  /\ result' = [NoResult EXCEPT !.errors = 1]
    /\ UNCHANGED <<cycle, asm_vars, base_outcome, read_vars, all_calculated_vars,
                   part_vars, remaining, part_log, desigVars, qty, guiVars, dxfVars>>

\* the ways the loop over base_vars may go: at most one of its try blocks
\* is left by an exception
BaseOutcomeChoices ==
    {o \in [{nH, nB1, nL1} -> BaseOutcomes] :
        Cardinality({n \in {nH, nB1, nL1} : o[n] # "ok"}) <= 1}

\* 1.1: the loop over base_vars
WriteBase ==
    /\ pc = "base"
    /\ \E outcome \in BaseOutcomeChoices :
         /\ asm_vars' = WriteBaseVars(asm_vars, pv_args, outcome)
         /\ base_outcome' = outcome
         /\ result' = [result EXCEPT !.assembly_vars_updated =
                          Cardinality(BaseWritten(asm_vars, outcome))]
    /\ pc' = "update"
    /\ cycle' = 1
    /\ events' = Append(events, "base")
    /\ UNCHANGED <<pv_args, assembly_file, read_vars, all_calculated_vars, part_vars,
                   remaining, part_log, ops, desigVars, qty, guiVars, dxfVars>>

\* 1.2: iPart.Update()
Update ==
    /\ pc = "update"
    /\ pc' = "sleep_update"
    /\ events' = Append(events, "Update")
    /\ UNCHANGED <<pv_args, assembly_file, cycle, asm_vars, base_outcome, read_vars,
                   all_calculated_vars, part_vars, remaining, part_log, result,
                   ops, desigVars, qty, guiVars, dxfVars>>

\* 1.2: iPart.RebuildModel(); the engine recomputes or does not
RebuildModel ==
    /\ pc = "rebuild_model"
    /\ pc' = "sleep_model"
    /\ events' = Append(events, "RebuildModel")
    /\ asm_vars' \in {asm_vars, EngineRecompute(asm_vars)}
    /\ UNCHANGED <<pv_args, assembly_file, cycle, base_outcome, read_vars,
                   all_calculated_vars, part_vars, remaining, part_log, result,
                   ops, desigVars, qty, guiVars, dxfVars>>

\* 1.2: iDocument3D.RebuildDocument()
RebuildDocument ==
    /\ pc = "rebuild_doc"
    /\ pc' = "sleep_doc"
    /\ events' = Append(events, "RebuildDocument")
    /\ asm_vars' \in {asm_vars, EngineRecompute(asm_vars)}
    /\ UNCHANGED <<pv_args, assembly_file, cycle, base_outcome, read_vars,
                   all_calculated_vars, part_vars, remaining, part_log, result,
                   ops, desigVars, qty, guiVars, dxfVars>>

\* 1.2: time.sleep() after each of the three calls of a cycle
Sleep ==
    /\ pc \in {"sleep_update", "sleep_model", "sleep_doc"}
    /\ events' = Append(events, "sleep")
    /\ IF pc = "sleep_update" THEN pc' = "rebuild_model" /\ cycle' = cycle
       ELSE IF pc = "sleep_model" THEN pc' = "rebuild_doc" /\ cycle' = cycle
       ELSE /\ pc' = AfterCycle(cycle)
            /\ cycle' = IF AfterCycle(cycle) = "update" THEN cycle + 1 ELSE cycle
    /\ UNCHANGED <<pv_args, assembly_file, asm_vars, base_outcome, read_vars,
                   all_calculated_vars, part_vars, remaining, part_log, result,
                   ops, desigVars, qty, guiVars, dxfVars>>

\* 1.3: read every variable of the assembly
Read ==
    /\ pc = "read"
    /\ pc' = "derive"
    /\ events' = Append(events, "read")
    /\ read_vars' = ReadVariables(asm_vars)
    /\ all_calculated_vars' = ReadVariables(asm_vars)
    /\ UNCHANGED <<pv_args, assembly_file, cycle, asm_vars, base_outcome, part_vars,
                   remaining, part_log, result, ops, desigVars, qty, guiVars, dxfVars>>

\* 1.3: the hand-written rules
Derive ==
    /\ pc = "derive"
    /\ pc' = "save"
    /\ all_calculated_vars' = DeriveVariables(all_calculated_vars, pv_args)
    /\ UNCHANGED <<pv_args, assembly_file, cycle, events, asm_vars, base_outcome,
                   read_vars, part_vars, remaining, part_log, result, ops,
                   desigVars, qty, guiVars, dxfVars>>

\* Save(), then Close(False); the part files are listed
SaveAndClose ==
    /\ pc \in {"save", "close"}
    /\ IF pc = "save"
       THEN /\ pc' = "close"
            /\ events' = Append(events, "Save")
            /\ UNCHANGED <<remaining, ops>>
       ELSE /\ pc' = "parts"
            /\ events' = Append(events, "Close")
            /\ ops' = CloseActive(ops)
            /\ remaining' = {f \in DOMAIN part_vars : ~IsAuxiliaryFile(f)}
    /\ UNCHANGED <<pv_args, assembly_file, cycle, asm_vars, base_outcome, read_vars,
                   all_calculated_vars, part_vars, part_log, result, desigVars, qty, guiVars, dxfVars>>

\* a call on the assembly document raises: the outer handler ends the run
\* and closes nothing
Raise ==
    /\ pc \in (AssemblyStage \ {"base"}) \cup {"final"}
    /\ pc' = "done"
    /\ result' = [result EXCEPT !.errors = @ + 1]
    /\ UNCHANGED <<pv_args, assembly_file, cycle, events, asm_vars, base_outcome,
                   read_vars, all_calculated_vars, part_vars, remaining, part_log,
                   ops, desigVars, qty, guiVars, dxfVars>>

\* the ways the writes of one part may go: at most one try block of the loop
\* over the variables is left by an exception
VarOutcomeChoices(touched) ==
    {o \in [touched -> Outcomes] :
        Cardinality({n \in touched : o[n] # "ok"}) <= 1}

\* stage 2: one part file, from open_document to the end of the loop body
ProcessPart ==
    /\ pc = "parts"
    /\ \E part_file \in remaining :
         LET touched == Touched(part_vars[part_file], all_calculated_vars)
             updated_in_part == Cardinality(touched)
         IN  \E how \in PartOutcomesOf(part_file, updated_in_part),
                handler_closes \in BOOLEAN :
               /\ how \notin PartRaises => handler_closes
               /\ remaining' = RestAfter(remaining, part_file, how)
               /\ ops' = PartOps(ops, part_file, how, updated_in_part, handler_closes)
               /\ part_log' = part_log @@ (part_file :> how)
               /\ IF PartSaved(how, updated_in_part)
                  THEN \E outcome \in VarOutcomeChoices(touched) :
                         part_vars' =
                           [part_vars EXCEPT ![part_file] =
                              UpdatePartVars(@, all_calculated_vars,
                                             DOMAIN all_calculated_vars, outcome)]
                  ELSE UNCHANGED part_vars
               /\ result' =
                    IF PartCounted(how, updated_in_part)
                    THEN [result EXCEPT !.parts_updated = @ + 1,
                             !.total_vars_in_parts = @ + updated_in_part]
                    ELSE result
    /\ UNCHANGED <<pc, pv_args, assembly_file, cycle, events, asm_vars, base_outcome,
                   read_vars, all_calculated_vars, desigVars, qty, guiVars, dxfVars>>

\* stage 3: "if self.open_document(str(assembly_file))"
Reopen ==
    /\ pc = "parts"
    /\ remaining = {}
    /\ \E outcome \in OpenOutcomes :
         /\ ops' = OpenDocument(ops, assembly_file, outcome)
         /\ IF outcome = "opened"
            THEN /\ pc' = "final"
                 /\ events' = Append(events, "open")
                 /\ UNCHANGED result
            ELSE /\ pc' = "done"
                 /\ result' = [result EXCEPT !.success = TRUE]
                 /\ UNCHANGED events
    /\ UNCHANGED <<pv_args, assembly_file, cycle, asm_vars, base_outcome, read_vars,
                   all_calculated_vars, part_vars, remaining, part_log, desigVars,
                   qty, guiVars, dxfVars>>

\* stage 3: the rebuild cycles, Save, Close(False)
FinalRebuild ==
    /\ pc = "final"
    /\ pc' = "done"
    /\ events' = events \o Cycles(FinalCycles) \o <<"Save", "sleep", "Close">>
    /\ ops' = CloseActive(ops)
    /\ result' = [result EXCEPT !.success = TRUE]
    /\ UNCHANGED <<pv_args, assembly_file, cycle, asm_vars, base_outcome, read_vars,
                   all_calculated_vars, part_vars, remaining, part_log, desigVars,
                   qty, guiVars, dxfVars>>

NextVariables ==
    \/ Start \/ WriteBase \/ Update \/ RebuildModel \/ RebuildDocument \/ Sleep
    \/ Read \/ Derive \/ SaveAndClose \/ Raise \/ ProcessPart \/ Reopen
    \/ FinalRebuild

SpecVariables == InitVariables /\ [][NextVariables]_vars

(***************************************************************************)
(* Properties of the designation pass and of quantity resolution.          *)
(***************************************************************************)
Key(i)       == Strip(parts[i].name)
Numbered     == {i \in 1..Len(inst_log) : ~inst_log[i].service}
FirstSeen(i) == CHOOSE j \in Numbered : Key(j) = Key(i) /\
                    \A k \in Numbered : Key(k) = Key(i) => j <= k

\* C1: a second run in a row with the same H, B1, L1 and prefix assigns no
\* instance designation (p.marking is written for no instance).
C1_SecondRunWritesNothing ==
    (run >= 2 /\ args = prev_args) =>
        \A i \in 1..Len(inst_log) : ~inst_log[i].wrote

C1_Witness ==
    /\ run >= 2
    /\ args = prev_args
    /\ \E i \in Numbered : ~IsPurchased(Key(i)) /\ parts[i].marking = inst_log[i].new_mark
    /\ \E i \in Numbered : IsPurchased(Key(i))
    /\ \E i \in 1..Len(inst_log) : inst_log[i].service

\* C2: numbered instances of one name share one sequence number, distinct
\* names have distinct numbers, the first name seen has number 1 and the
\* numbers increase strictly in the order the names are first seen.
C2_Grouping ==
    run >= 1 =>
        /\ \A i, j \in Numbered :
             (Key(i) = Key(j)) <=> (inst_log[i].number = inst_log[j].number)
        /\ \A i, j \in Numbered :
             FirstSeen(i) < FirstSeen(j) => inst_log[i].number < inst_log[j].number
        /\ \A i \in Numbered :
             (\A j \in Numbered : i <= j) => inst_log[i].number = 1

C2_Witness ==
    /\ run >= 1
    /\ \E i, j, k \in Numbered :
         i < j /\ j < k /\ Key(i) = Key(k) /\ Key(i) # Key(j)
           /\ inst_log[k].number = 1 /\ inst_log[j].number = 2

\* C3: an instance whose designation is empty or starts with "-" gets no
\* sequence number, keeps its designation, and its source file is not in
\* file_to_marking.
C3_ServiceFileNeverBound ==
    run >= 1 =>
        \A i \in 1..Len(before) :
            IsService(Strip(before[i].marking)) =>
                /\ inst_log[i].number = 0
                /\ parts[i].marking = before[i].marking
                /\ Strip(before[i].fileName) # <<>> =>
                     ~InMap(file_to_marking, PathName(Strip(before[i].fileName)))

\* C4: an instance whose name contains a purchased keyword has the same
\* designation after the pass as before it, also when the name contains the
\* housing keyword.
C4_PurchasedUnchanged ==
    run >= 1 =>
        \A i \in 1..Len(before) :
            IsPurchased(Strip(before[i].name)) => parts[i].marking = before[i].marking

C4_Witness ==
    /\ run >= 1
    /\ \E i \in Numbered :
         IsPurchased(Key(i)) /\ IsHousing(Key(i)) /\ inst_log[i].number > 0
    /\ \E i \in Numbered : inst_log[i].wrote

\* C7: the quantity is the number of non-service instances whose stripped
\* designation equals the requested one, 1 when there is none or when the
\* assembly does not open; it is never below 1.
Matching(m) ==
    {i \in 1..Len(parts) :
        /\ Strip(parts[i].marking) # <<>>
        /\ Head(Strip(parts[i].marking)) # "-"
        /\ Strip(parts[i].marking) = m}

C7_Quantity ==
    qty.called =>
        /\ qty.quantity >= 1
        /\ (qty.opened /\ Matching(qty.part_marking) # {}) =>
               qty.quantity = Cardinality(Matching(qty.part_marking))
        /\ (~qty.opened \/ Matching(qty.part_marking) = {}) => qty.quantity = 1

C7_Witness ==
    /\ qty.called /\ qty.opened
    /\ qty.part_marking = MkFirst
    /\ qty.quantity = 2
    /\ \E i \in 1..Len(parts) : Strip(parts[i].marking) = <<>>

\* C9: a numbered, non-purchased instance gets "{prefix}.{H}.{B1}.{L1}.{seq}"
\* when its name contains the housing keyword and "{prefix}.{H}.{B1}.{seq}"
\* otherwise, seq being its name's number in three zero-padded digits.
ThreeDigits(n) ==
    <<DigitChar(n \div 100), DigitChar((n \div 10) % 10), DigitChar(n % 10)>>

Dims ==
    IF args.H = 160 /\ args.B1 = 350 /\ args.L1 = 2600
    THEN [short |-> <<".", "1", "6", "0", ".", "3", "5", "0", ".">>,
          long  |-> <<"2", "6", "0", "0", ".">>]
    ELSE [short |-> <<".", "1", "2", "9", ".", "1", "6", "0", ".">>,
          long  |-> <<"1", "4", "0", "0", ".">>]

Expected(i) ==
    args.prefix \o Dims.short
        \o (IF IsHousing(Key(i)) THEN Dims.long ELSE <<>>)
        \o ThreeDigits(inst_log[i].number)

C9_Format ==
    run >= 1 =>
        \A i \in Numbered :
            ~IsPurchased(Key(i)) =>
                /\ inst_log[i].new_mark = Expected(i)
                /\ Strip(parts[i].marking) = Expected(i)
                /\ inst_log[i].wrote => parts[i].marking = Expected(i)

C9_Witness ==
    /\ run >= 1
    /\ args.prefix = PrefixLite
    /\ Len(parts) >= 2
    /\ parts[1].marking = <<"ZVD", ".", "LITE", ".", "1", "6", "0", ".", "3", "5", "0",
                            ".", "2", "6", "0", "0", ".", "0", "0", "1">>
    /\ parts[2].marking = <<"ZVD", ".", "LITE", ".", "1", "6", "0", ".", "3", "5", "0",
                            ".", "0", "0", "2">>
    /\ inst_log[1].wrote /\ inst_log[2].wrote

(***************************************************************************)
(* Properties of update_project_variables.                                 *)
(***************************************************************************)
\* C5: propagation creates no variable in a part file; a variable is written
\* only if the part already had it and the derived map names it.
C5_NoCreation ==
    \A f \in DOMAIN part_vars :
        /\ DOMAIN part_vars[f] = DOMAIN InitPartVars[f]
        /\ \A n \in DOMAIN part_vars[f] :
             part_vars[f][n] # InitPartVars[f][n] =>
                 n \in DOMAIN all_calculated_vars /\ n \in DOMAIN InitPartVars[f]

C5_Witness ==
    /\ pc = "done" /\ result.success
    /\ {nA1, nA3, nA4, nB5} \subseteq DOMAIN all_calculated_vars
    /\ DOMAIN part_vars[PartKorpus] = {nA1, nA4}
    /\ part_vars[PartKorpus][nA1].Expression # InitPartVars[PartKorpus][nA1].Expression
    /\ part_vars[PartKorpus][nA1].External
    /\ part_vars[PartKorpus][nA4].External

\* C6: a part variable whose expression is a formula keeps exactly that
\* expression text, on every path.
C6_FormulaKept ==
    \A f \in DOMAIN part_vars :
        \A n \in DOMAIN InitPartVars[f] :
            HasFormula(InitPartVars[f][n].Expression) =>
                part_vars[f][n].Expression = InitPartVars[f][n].Expression

\* C8: after read-and-derive the map holds A1 = H - A2 (A2 present),
\* A4 = A1 - 5 from that A1, B3 = B1 - 2*B2 - 6.9 and B4 = B1 - 2*B2 - 2.5
\* (B2 present), B5 = B1 - 4, B6 = B1 - 60, A5 = A2 - 1.5 (A2 present), and
\* for every other variable the value read from the assembly.
Ruled == {nA1, nA3, nA4, nA5, nB3, nB4, nB5, nB6}
Derived == pc \in {"save", "close", "parts"} \/ (pc = "done" /\ result.success)

C8_RuleTable ==
    Derived =>
        LET m == all_calculated_vars
            r == read_vars
            h10 == 10 * pv_args.h
            b10 == 10 * pv_args.b1
        IN  /\ (nA2 \in DOMAIN r) => nA1 \in DOMAIN m /\ m[nA1].v = h10 - r[nA2].v
            /\ (nA2 \notin DOMAIN r /\ nA1 \in DOMAIN r) => m[nA1] = r[nA1]
            /\ (nA1 \in DOMAIN m) => nA4 \in DOMAIN m /\ m[nA4].v = m[nA1].v - 50
            /\ (nB2 \in DOMAIN r) =>
                  /\ nB3 \in DOMAIN m /\ m[nB3].v = b10 - 2 * r[nB2].v - 69
                  /\ nB4 \in DOMAIN m /\ m[nB4].v = b10 - 2 * r[nB2].v - 25
            /\ nB5 \in DOMAIN m /\ m[nB5].v = b10 - 40
            /\ nB6 \in DOMAIN m /\ m[nB6].v = b10 - 600
            /\ (nA2 \in DOMAIN r) => nA5 \in DOMAIN m /\ m[nA5].v = r[nA2].v - 15
            /\ DOMAIN m \ Ruled = DOMAIN r \ Ruled
            /\ \A n \in DOMAIN r \ Ruled : m[n] = r[n]

C8_Witness ==
    /\ pc = "save"
    /\ pv_args.h = 160 /\ pv_args.b1 = 350
    /\ nA2 \in DOMAIN read_vars /\ nA4 \in DOMAIN read_vars
    /\ nB2 \in DOMAIN read_vars /\ read_vars[nB2].v = 400
    /\ nA1 \in DOMAIN read_vars /\ read_vars[nA1].v = 1200
    /\ all_calculated_vars[nA1].v = 1300
    /\ all_calculated_vars[nA4].v = 1250
    /\ all_calculated_vars[nB5].v = 3460
    /\ all_calculated_vars[nB6].v = 2900

\* C10: the assembly's variables are read only after the base write and
\* three cycles of Update, RebuildModel, RebuildDocument, each call followed
\* by its settle delay.
CycleEvents ==
    <<"Update", "sleep", "RebuildModel", "sleep", "RebuildDocument", "sleep">>
BeforeRead == <<"open", "base">> \o CycleEvents \o CycleEvents \o CycleEvents

C10_ReadAfterCycles ==
    /\ \A k \in 1..Len(events) :
         events[k] = "read" => SubSeq(events, 1, k - 1) = BeforeRead
    /\ (read_vars # <<>> \/ all_calculated_vars # <<>>) =>
         \E k \in 1..Len(events) : events[k] = "read"

C10_Witness ==
    /\ pc = "derive"
    /\ cycle = 3
    /\ read_vars # <<>>
    /\ events[Len(events)] = "read"

\* C11: a part file whose processing fails (it does not open, or a rebuild,
\* a save or the spacer's re-open raises) does not keep any other part file
\* from being reached; after the loop the assembly is opened again and, when
\* it opens and no call raises, rebuilt in three cycles, whatever the number
\* of part files that failed.
PartFilesToProcess == {f \in DOMAIN part_vars : ~IsAuxiliaryFile(f)}
FirstClose == CHOOSE k \in 1..Len(events) :
                  events[k] = "Close" /\ \A j \in 1..(k - 1) : events[j] # "Close"
PartStageOver == pc \in {"final", "done"} /\ \E k \in 1..Len(events) : events[k] = "Close"
AfterParts == SubSeq(events, FirstClose + 1, Len(events))

C11_PartFailureIsolated ==
    /\ pc = "parts" => DOMAIN part_log \cup remaining = PartFilesToProcess
    /\ PartStageOver =>
         /\ DOMAIN part_log = PartFilesToProcess
         /\ pc = "final" => AfterParts = <<"open">> /\ ActiveDocument(ops) = assembly_file
         /\ pc = "done" =>
              \/ ~result.success /\ AfterParts = <<"open">>
              \/ result.success /\ AfterParts = <<>>
              \/ /\ result.success
                 /\ AfterParts = <<"open">> \o CycleEvents \o CycleEvents \o CycleEvents
                                    \o <<"Save", "sleep", "Close">>

C11_Witness ==
    /\ pc = "done" /\ result.success
    /\ PartStageOver
    /\ part_log[PartKorpus] = "rebuild_raises"
    /\ part_log[PartRasporka] = "reopen_raises"
    /\ result.parts_updated = 0
    /\ Len(AfterParts) = 22

\* C16: every base variable found in the assembly whose three writes complete
\* has the input as value, its decimal string as expression and External set,
\* whether or not another base variable is missing or its write raised; the
\* run goes on to the rebuild cycles, and assembly_vars_updated is the
\* number of base variables written completely.
Decimal(i) ==
    CASE i = 160  -> <<"1", "6", "0">>
      [] i = 350  -> <<"3", "5", "0">>
      [] i = 2600 -> <<"2", "6", "0", "0">>
      [] i = 129  -> <<"1", "2", "9">>
      [] i = 1400 -> <<"1", "4", "0", "0">>
BaseInput(n) == IF n = nH THEN pv_args.h ELSE IF n = nB1 THEN pv_args.b1 ELSE pv_args.l1
FullyWritten(n) ==
    /\ n \in DOMAIN asm_vars
    /\ asm_vars[n].value = [k |-> "float", v |-> 10 * BaseInput(n)]
    /\ asm_vars[n].Expression = Decimal(BaseInput(n))
    /\ asm_vars[n].External

C16_BaseWrite ==
    base_outcome # <<>> =>
        /\ \A n \in {nH, nB1, nL1} :
             (n \in DOMAIN asm_vars /\ base_outcome[n] = "ok") <=> FullyWritten(n)
        /\ result.assembly_vars_updated =
             Cardinality({n \in {nH, nB1, nL1} : FullyWritten(n)})
        /\ pc # "base"
        /\ pc # "done" => result.errors = 0

C16_Witness ==
    /\ pc = "update" /\ cycle = 1
    /\ nB1 \in DOMAIN asm_vars
    /\ base_outcome[nB1] = "expression_raises"
    /\ asm_vars[nB1].value.v = 10 * pv_args.b1
    /\ ~asm_vars[nB1].External
    /\ FullyWritten(nH) /\ FullyWritten(nL1)
    /\ result.assembly_vars_updated = 2

\* C17: a part-file variable named "v", digits, "_", ... (an instance's
\* variable, such as v1398_B3) is never written by the propagation, also
\* when the derived map holds that name.
InstanceScoped(n) ==
    /\ Len(n) >= 3
    /\ n[1] = "v"
    /\ \E u \in 3..Len(n) :
         n[u] = "_" /\ \A j \in 2..(u - 1) : n[j] \in Digits

C17_InstanceVarsUntouched ==
    \A f \in DOMAIN part_vars :
        \A n \in DOMAIN part_vars[f] :
            InstanceScoped(n) => part_vars[f][n] = InitPartVars[f][n]

C17_Witness ==
    /\ pc = "done" /\ result.success
    /\ PartRasporka \in DOMAIN part_log /\ part_log[PartRasporka] = "ok"
    /\ InstanceScoped(nInst)
    /\ nInst \in DOMAIN all_calculated_vars
    /\ all_calculated_vars[nInst] # InitPartVars[PartRasporka][nInst].value
    /\ part_vars[PartRasporka][nB5].External
    /\ part_vars[PartRasporka][nInst] = InitPartVars[PartRasporka][nInst]

\* C19: while update_project_variables runs no two documents are open in the
\* CAD application at the same time.
C19_SingleDocument ==
    \A k \in 0..Len(ops) : Cardinality(Documents(SubSeq(ops, 1, k))) <= 1

(***************************************************************************)
(* Both handlers on one project folder, with or without an assembly file.  *)
(***************************************************************************)
InitProject ==
    /\ parts = <<>>
    /\ disk = {PartKorpus}
    /\ file_marks = [f \in {PartKorpus} |-> MkOld]
    /\ drawings = {DrwPlain}
    /\ faulty = FALSE
    /\ asm_files \in {{}, {AsmOld}}
    /\ asm_marking = <<"OLD", " ", "SB">>
    /\ NoDesignationRun
    /\ qty = NoQty
    /\ ops \in {<<>>, <<Op("open", OtherDoc)>>}
    /\ pc = "idle"
    /\ pv_args = NoPvArgs
    /\ assembly_file = <<>>
    /\ cycle = 0
    /\ events = <<>>
    /\ asm_vars = AsmAlways
    /\ base_outcome = <<>>
    /\ read_vars = <<>>
    /\ all_calculated_vars = <<>>
    /\ part_vars = [f \in {PartKorpus} |-> InitPartVars[f]]
    /\ remaining = {}
    /\ part_log = <<>>
    /\ result = NoResult
    /\ GuiIdle
    /\ NoDxfRun

NextProject == UpdateAllDesignations \/ NextVariables

SpecProject == InitProject /\ [][NextProject]_vars

(***************************************************************************)
(* Assemblies around the limit of the designation pass's instance scan, as  *)
(* the pipeline handles them: the designations first, the quantities later.*)
(***************************************************************************)
Filler == [name |-> NameWall, marking |-> MkOld, fileName |-> ProjectDir \o FileB]

ScanTails ==
    { [name |-> NameWall,    marking |-> MkOld,    fileName |-> ProjectDir \o FileB],
      [name |-> NameWall,    marking |-> MkPadded, fileName |-> ProjectDir \o FileB],
      [name |-> NameHousing, marking |-> MkOld,    fileName |-> ProjectDir \o FileA],
      [name |-> NameWall,    marking |-> MkAux,    fileName |-> ProjectDir \o FileA] }

\* n instances of one part, then one more instance
LongAssemblies ==
    { [i \in 1..(n + 1) |-> IF i <= n THEN Filler ELSE t] :
        n \in (ScanLimit - 2)..ScanLimit, t \in ScanTails }

InitScan ==
    /\ parts \in LongAssemblies
    /\ disk = {FileA, FileB}
    /\ file_marks = [f \in {FileA, FileB} |-> MkOld]
    /\ drawings = {}
    /\ faulty = FALSE
    /\ asm_files = {AsmOld}
    /\ asm_marking = <<"OLD", " ", "SB">>
    /\ NoDesignationRun
    /\ qty = NoQty
    /\ ops = <<>>
    /\ NoVariablesRun
    /\ GuiIdle
    /\ NoDxfRun

\* step 4 of the pipeline
DesignationStep == ~qty.called /\ UpdateAllDesignations

\* step 6 of the pipeline: rename_dxf_files asks for quantities
QuantityStep == run > 0 /\ GetPartQuantity

NextScan == DesignationStep \/ QuantityStep

SpecScan == InitScan /\ [][NextScan]_vars

(***************************************************************************)
(* update_project_variables on a folder with two spacers, one of them      *)
(* without a variable of the assembly.                                     *)
(***************************************************************************)
SpacerBare == <<"0", "0", "4", " - ", "rasporka", ".m3d">>

SpacerPartVars ==
    (PartKorpus :> (nB5 :> Variable(2960, <<"2", "9", "6", ".", "0">>)))
    @@ (PartRasporka :> (nB6 :> Variable(2400, <<"B1", "-", "6", "0">>)))
    @@ (SpacerBare :> (nInst :> Variable(1000, <<"1", "0", "0", ".", "0">>)))

InitSpacer ==
    /\ parts = <<>>
    /\ disk = DOMAIN SpacerPartVars
    /\ file_marks = [f \in DOMAIN SpacerPartVars |-> MkOld]
    /\ drawings = {}
    /\ faulty = TRUE
    /\ asm_files = {AsmOld}
    /\ asm_marking = <<"OLD", " ", "SB">>
    /\ NoDesignationRun
    /\ qty = NoQty
    /\ asm_vars = AsmAlways
    /\ ops = <<>>
    /\ pc = "idle"
    /\ pv_args = NoPvArgs
    /\ assembly_file = <<>>
    /\ cycle = 0
    /\ events = <<>>
    /\ base_outcome = <<>>
    /\ read_vars = <<>>
    /\ all_calculated_vars = <<>>
    /\ part_vars = SpacerPartVars
    /\ remaining = {}
    /\ part_log = <<>>
    /\ result = NoResult
    /\ GuiIdle
    /\ NoDxfRun

SpecSpacer == InitSpacer /\ [][NextVariables]_vars

(***************************************************************************)
(* The values of variables as the doubles they are: a sign, the exponent   *)
(* of the leading bit and 53 bits of mantissa, leading bit first.  The sum *)
(* and the difference are computed exactly and rounded to the nearest      *)
(* double, ties to the even mantissa.                                      *)
(***************************************************************************)
MantissaBits == 53

RECURSIVE Pow2(_)
Pow2(k) == IF k = 0 THEN 1 ELSE 2 * Pow2(k - 1)

\* the w low bits of n, leading bit first
BitsOf(n, w) == [i \in 1..w |-> (n \div Pow2(w - i)) % 2]

\* the number a bit string of at most 20 bits stands for
RECURSIVE ValOf(_)
ValOf(b) ==
    IF b = <<>> THEN 0 ELSE 2 * ValOf(SubSeq(b, 1, Len(b) - 1)) + b[Len(b)]

Zeros(k) == [i \in 1..k |-> 0]

StripZeros(b) ==
    IF \E k \in 1..Len(b) : b[k] = 1 THEN SubSeq(b, FirstIndex(b, 1), Len(b))
    ELSE <<>>

\* a double from its exponent and the two halves of its mantissa
Dbl(neg, e, hi, lo) == [neg |-> neg, e |-> e, m |-> BitsOf(hi, 27) \o BitsOf(lo, 26)]
DblZero == [neg |-> FALSE, e |-> 0, m |-> Zeros(MantissaBits)]

\* a < b, of bit strings of one length
BitsLess(a, b) ==
    \E k \in 1..Len(a) : a[k] < b[k] /\ \A j \in 1..(k - 1) : a[j] = b[j]

\* the last 20 bits of a longer bit string, and the bits before them
Low(a)   == SubSeq(a, Len(a) - 19, Len(a))
Front(a) == SubSeq(a, 1, Len(a) - 20)

\* a + b + c, of bit strings of one length, 20 bits at a time from the
\* last bit; one bit longer
RECURSIVE BitsAdd(_, _, _)
BitsAdd(a, b, c) ==
    IF Len(a) <= 20 THEN BitsOf(ValOf(a) + ValOf(b) + c, Len(a) + 1)
    ELSE LET lo == BitsOf(ValOf(Low(a)) + ValOf(Low(b)) + c, 21)
         IN  BitsAdd(Front(a), Front(b), lo[1]) \o Tail(lo)

\* a - b - c, for a >= b
RECURSIVE BitsSub(_, _, _)
BitsSub(a, b, c) ==
    IF Len(a) <= 20 THEN BitsOf(ValOf(a) - ValOf(b) - c, Len(a))
    ELSE LET d == ValOf(Low(a)) - ValOf(Low(b)) - c
         IN  BitsSub(Front(a), Front(b), IF d < 0 THEN 1 ELSE 0)
                 \o BitsOf(IF d < 0 THEN d + Pow2(20) ELSE d, 20)

\* the double nearest to the number with bits r (leading bit 1) whose last
\* bit weighs 2^q
Round(neg, r, q) ==
    LET n == Len(r)
        t == SubSeq(r, 1, MantissaBits)
        up == /\ r[MantissaBits + 1] = 1
              /\ \/ \E k \in (MantissaBits + 2)..n : r[k] = 1
                 \/ t[MantissaBits] = 1
        s == BitsAdd(t, Zeros(MantissaBits - 1) \o <<1>>, 0)
    IN  IF n <= MantissaBits
        THEN [neg |-> neg, e |-> q + n - 1, m |-> r \o Zeros(MantissaBits - n)]
        ELSE IF ~up THEN [neg |-> neg, e |-> q + n - 1, m |-> t]
        ELSE IF s[1] = 1
        THEN [neg |-> neg, e |-> q + n, m |-> SubSeq(s, 1, MantissaBits)]
        ELSE [neg |-> neg, e |-> q + n - 1, m |-> Tail(s)]

\* float(n) of an int n
DblFromInt(n) ==
    IF n = 0 THEN DblZero
    ELSE Round(n < 0, StripZeros(BitsOf(IF n < 0 THEN 0 - n ELSE n, 31)), 0)

DblNeg(x) == IF x = DblZero THEN x ELSE [x EXCEPT !.neg = ~x.neg]

\* x + y
DblAdd(x, y) ==
    IF x = DblZero THEN y
    ELSE IF y = DblZero THEN x
    ELSE LET emin == IF x.e < y.e THEN x.e ELSE y.e
             xb   == Zeros(y.e - emin) \o x.m \o Zeros(x.e - emin)
             yb   == Zeros(x.e - emin) \o y.m \o Zeros(y.e - emin)
             q    == emin - (MantissaBits - 1)
         IN  IF x.neg = y.neg
             THEN Round(x.neg, StripZeros(BitsAdd(xb, yb, 0)), q)
             ELSE IF xb = yb THEN DblZero
             ELSE IF BitsLess(yb, xb)
             THEN Round(x.neg, StripZeros(BitsSub(xb, yb, 0)), q)
             ELSE Round(y.neg, StripZeros(BitsSub(yb, xb, 0)), q)

\* x - y
DblSub(x, y) == DblAdd(x, DblNeg(y))

\* the rules of A1 and A3 on the values read
A1Rule(m, h) == IF Has(m, nA2) THEN Put(m, nA1, DblSub(DblFromInt(h), m[nA2])) ELSE m
A3Rule(m) ==
    IF ~Has(m, nA1) THEN m
    ELSE IF Has(m, nA3)
         THEN LET coeff == DblSub(m[nA1], m[nA3])
              IN  Put(m, nA3, DblSub(m[nA1], coeff))
         ELSE Put(m, nA3, DblSub(m[nA1], DblFromInt(20)))

\* values read from an assembly: 5.0, 20.1, 15.3, 30.0 and
\* 1.7, 109.5, 3.1, 110.0, 200.4
ReadA2 ==
    { Dbl(FALSE, 2, 83886080, 0), Dbl(FALSE, 4, 84305510, 26843546),
      Dbl(FALSE, 3, 128345702, 26843546), Dbl(FALSE, 4, 125829120, 0) }
ReadA3 ==
    { Dbl(FALSE, 0, 114085068, 53687091), Dbl(FALSE, 6, 114819072, 0),
      Dbl(FALSE, 1, 104018739, 13421773), Dbl(FALSE, 6, 115343360, 0),
      Dbl(FALSE, 7, 105067315, 13421773) }
HeightsA3 == {50, 100, 129, 150}

ReadMaps ==
    {(nA2 :> a2) : a2 \in ReadA2}
        \cup {(nA2 :> a2) @@ (nA3 :> a3) : a2 \in ReadA2, a3 \in ReadA3}
        \cup {(nA1 :> a3) @@ (nA3 :> a2) : a2 \in ReadA2, a3 \in ReadA3}
        \cup {(nA3 :> a3) : a3 \in ReadA3}

\* the state after the variables were read
InitA3 ==
    /\ parts = <<>>
    /\ disk = {}
    /\ file_marks = <<>>
    /\ drawings = {}
    /\ faulty = FALSE
    /\ asm_files = {AsmOld}
    /\ asm_marking = <<>>
    /\ NoDesignationRun
    /\ qty = NoQty
    /\ ops = <<>>
    /\ pc = "derive"
    /\ \E h \in HeightsA3 : pv_args = [h |-> h, b1 |-> 0, l1 |-> 0]
    /\ assembly_file = AsmOld
    /\ cycle = 0
    /\ events = <<>>
    /\ asm_vars = <<>>
    /\ base_outcome = <<>>
    /\ read_vars \in ReadMaps
    /\ all_calculated_vars = read_vars
    /\ part_vars = <<>>
    /\ remaining = {}
    /\ part_log = <<>>
    /\ result = NoResult
    /\ GuiIdle
    /\ NoDxfRun

\* the rules of A1 and A3, applied to the doubles read
DeriveDoubles ==
    /\ pc = "derive"
    /\ pc' = "save"
    /\ all_calculated_vars' = A3Rule(A1Rule(all_calculated_vars, pv_args.h))
    /\ UNCHANGED <<pv_args, assembly_file, cycle, events, asm_vars, base_outcome,
                   read_vars, part_vars, remaining, part_log, result, ops,
                   desigVars, qty, guiVars, dxfVars>>

NextA3 == DeriveDoubles

SpecA3 == InitA3 /\ [][NextA3]_vars

(***************************************************************************)
(* update_all_designations on a folder with a heat exchanger's part file.  *)
(***************************************************************************)
HeatMarks ==
    { MkHeat,
      <<"ZVD", ".", "TO", ".", "1", "1", "0", "0">>,
      <<"ZVD", ".", "TO", " ", "TO", " ", "1">>,
      <<"ZVD", ".", "TO", ".", "1", "1", "0", "0", ".", "5", " ", "TO">>,
      <<"TO", " ", "1">>,
      <<" ", "ZVD", ".", "TO", ".", "1", "1", "0", "0", " ", " ", "TO">>,
      <<>> }

\* the heat exchanger's file: not in the assembly, the file of an instance
\* named as purchased, the file of an instance that gets a number
HeatAssemblies ==
    { <<[name |-> NameHousing, marking |-> MkOld, fileName |-> ProjectDir \o FileA]>>,
      <<[name |-> NameHeat,    marking |-> MkHeat, fileName |-> ProjectDir \o FileHeat]>>,
      <<[name |-> NameHousing, marking |-> MkOld, fileName |-> ProjectDir \o FileA],
        [name |-> NameWall,    marking |-> MkOld, fileName |-> ProjectDir \o FileHeat]>> }

InitHeat ==
    /\ parts \in HeatAssemblies
    /\ disk = {FileA, FileHeat}
    /\ \E m \in HeatMarks : file_marks = (FileA :> MkOld) @@ (FileHeat :> m)
    /\ drawings = {}
    /\ faulty = TRUE
    /\ asm_files = {AsmOld}
    /\ asm_marking = <<"OLD", " ", "SB">>
    /\ NoDesignationRun
    /\ qty = NoQty
    /\ ops = <<>>
    /\ NoVariablesRun
    /\ GuiIdle
    /\ NoDxfRun

SpecHeat == InitHeat /\ [][NextDesignation]_vars

(***************************************************************************)
(* update_all_designations on folders with part files that the assembly    *)
(* does not use.                                                           *)
(***************************************************************************)
FileC == <<"C", ".m3d">>

SweepAssemblies ==
    { <<>>,
      <<[name |-> NameWall,    marking |-> MkOld, fileName |-> ProjectDir \o FileA]>>,
      <<[name |-> NameWall,    marking |-> MkOld, fileName |-> ProjectDir \o FileB],
        [name |-> NameHousing, marking |-> MkOld, fileName |-> ProjectDir \o FileA]>> }

SweepFolders ==
    { {FileA, FileTaken}, {FileA, FileB}, {FileB, FileC}, {FileA, FileB, FileC} }

InitSweep ==
    /\ parts \in SweepAssemblies
    /\ disk \in SweepFolders
    /\ file_marks = [f \in disk |-> MkOld]
    /\ drawings = {}
    /\ faulty = FALSE
    /\ asm_files = {AsmOld}
    /\ asm_marking = <<"OLD", " ", "SB">>
    /\ NoDesignationRun
    /\ qty = NoQty
    /\ ops = <<>>
    /\ NoVariablesRun
    /\ GuiIdle
    /\ NoDxfRun

SpecSweep == InitSweep /\ [][NextDesignation]_vars

(***************************************************************************)
(* rename_dxf_files: flat patterns matched to part files by their words.   *)
(***************************************************************************)
\* " - " written as the three characters it stands for
RECURSIVE Chars(_)
Chars(s) ==
    IF s = <<>> THEN <<>>
    ELSE (IF Head(s) = " - " THEN <<" ", "-", " ">> ELSE <<Head(s)>>) \o Chars(Tail(s))

\* len(a) of an atom, in characters of the source's alphabet
AtomLen(a) ==
    CASE a \in {"dekorativnaya", "dekorativnoj"} -> 12
      [] a = "ukorochennoj" -> 11
      [] a \in {"razvertka", "kronshtejna"} -> 9
      [] a \in {"rasporka", "rasporki", "tortsevaya", "tortsevoj", "nakladka"} -> 8
      [] a = "korpusa" -> 7
      [] a \in {"korpus", "koroba", "stenka", "stenki", "kryshka", "kryshki"} -> 6
      [] a = "sht" -> 2
      [] OTHER -> 1

RECURSIVE WordLen(_)
WordLen(w) == IF w = <<>> THEN 0 ELSE AtomLen(Head(w)) + WordLen(Tail(w))

\* set(s.split())
WordSet(s) == LET w == Words(Chars(s)) IN {w[k] : k \in 1..Len(w)}

\* set([w for w in s.split() if len(w) > 3])
LongWords(s) == {w \in WordSet(s) : WordLen(w) > 3}

\* s.strip(" -")
RECURSIVE StripBlankDash(_)
StripBlankDash(s) ==
    IF s # <<>> /\ Head(s) \in {" ", "-"} THEN StripBlankDash(Tail(s))
    ELSE IF s # <<>> /\ s[Len(s)] \in {" ", "-"}
    THEN StripBlankDash(SubSeq(s, 1, Len(s) - 1))
    ELSE s

\* old_name.lower().replace("развертка", "").strip(" -")
DxfClean(old_name) ==
    StripBlankDash(SelectSeq(Lower(Chars(old_name)), LAMBDA x : x # "razvertka"))

DxfKey(k, p) == [dxf_key |-> k, part_key |-> p]

dxf_to_part_mapping ==
    << DxfKey(<<"stenka", " ", "tortsevaya">>, <<"stenka", " ", "tortsevaya">>),
       DxfKey(<<"stenki", " ", "tortsevoj">>, <<"stenka", " ", "tortsevaya">>),
       DxfKey(<<"korpus", " ", "koroba">>, <<"korpus", " ", "koroba">>),
       DxfKey(<<"korpusa", " ", "koroba">>, <<"korpus", " ", "koroba">>),
       DxfKey(<<"kryshka", " ", "dekorativnaya">>, <<"kryshka", " ", "dekorativnaya">>),
       DxfKey(<<"kryshki", " ", "dekorativnoj">>, <<"kryshka", " ", "dekorativnaya">>),
       DxfKey(<<"rasporki">>, <<"rasporka">>),
       DxfKey(<<"ukorochennoj", " ", "rasporki">>, <<"nakladka">>),
       DxfKey(<<"stenki">>, <<"stenka">>),
       DxfKey(<<"stenka">>, <<"stenka">>) >>

\* dxf_key_words.issubset(dxf_clean_words)
KeyMatches(k, dxf_clean) ==
    WordSet(dxf_to_part_mapping[k].dxf_key) \subseteq WordSet(dxf_clean)

\* the key the loop over the list stops at, 0 when it runs to the end
MatchedKey(dxf_clean) ==
    IF \E k \in DOMAIN dxf_to_part_mapping : KeyMatches(k, dxf_clean)
    THEN CHOOSE k \in DOMAIN dxf_to_part_mapping :
            /\ KeyMatches(k, dxf_clean)
            /\ \A j \in 1..(k - 1) : ~KeyMatches(j, dxf_clean)
    ELSE 0

MappedToSkip(dxf_clean) ==
    MatchedKey(dxf_clean) # 0
        /\ dxf_to_part_mapping[MatchedKey(dxf_clean)].part_key = <<"nakladka">>

\* dxf_clean after the list
MappedClean(dxf_clean) ==
    IF MatchedKey(dxf_clean) = 0 THEN dxf_clean
    ELSE dxf_to_part_mapping[MatchedKey(dxf_clean)].part_key

\* the part files the candidate loop passes over
IsSpecialPart(part_file) ==
    Contains(Lower(part_file), <<"nakladka">>)
        \/ Contains(Lower(part_file), <<"teploobmennik">>)

\* s.split("(")[0].strip() when s has a bracket
CutOrder(s) ==
    IF FirstIndex(s, "(") > 0 THEN Strip(SubSeq(s, 1, FirstIndex(s, "(") - 1)) ELSE s

PartNameOnly(part_file) ==
    LET part_clean == Lower(Stem(part_file))
        k == FirstIndex(part_clean, " - ")
    IN  CutOrder(IF k > 0 THEN SubSeq(part_clean, k + 1, Len(part_clean))
                 ELSE part_clean)

\* part_file.stem.split(" - ")
NameParts(part_file) == Split(Stem(part_file), " - ")

IsDigitString(s) == s # <<>> /\ \A k \in 1..Len(s) : s[k] \in Digits

\* 0: no candidate; 1: the same long words; 2: the pattern's long words
\* are among the part's
Priority(part_file, dxf_clean) ==
    LET dxf_words == LongWords(dxf_clean)
        part_words == LongWords(PartNameOnly(part_file))
        exact_match == dxf_words = part_words
        subset_match == dxf_words # {} /\ dxf_words \subseteq part_words
    IN  IF IsSpecialPart(part_file) THEN 0
        ELSE IF ~(exact_match \/ subset_match) THEN 0
        ELSE IF ~IsDigitString(Strip(NameParts(part_file)[1])) THEN 0
        ELSE IF exact_match THEN 1 ELSE 2

\* the candidates in the order of part_files, after
\* candidates.sort(key=priority): a stable sort
SortedCandidates(part_files, dxf_clean) ==
    SelectSeq(part_files, LAMBDA f : Priority(f, dxf_clean) = 1)
        \o SelectSeq(part_files, LAMBDA f : Priority(f, dxf_clean) = 2)

\* part_name of the chosen part file
PartName(part_file) ==
    CutOrder(IF Len(NameParts(part_file)) > 1 THEN Strip(NameParts(part_file)[2])
             ELSE PartNameOnly(part_file))

\* " ".join(new_name_parts) + ".dxf"
NewDxfName(part_number, part_name, quantity, order_number) ==
    part_number \o <<" ", "-", " ">> \o part_name \o <<" ">> \o StrNat(quantity)
        \o <<"sht">>
        \o (IF order_number # <<>> THEN <<" ", "(">> \o order_number \o <<")">>
            ELSE <<>>)
        \o <<".dxf">>

\* what the mapping and the candidate loop find for one flat pattern
Match(dxf_file, part_files) ==
    LET dxf_clean0 == DxfClean(Stem(dxf_file))
        dxf_clean == MappedClean(dxf_clean0)
    IN  [file |-> dxf_file, key |-> MatchedKey(dxf_clean0),
         skipped |-> MappedToSkip(dxf_clean0),
         candidates |-> IF MappedToSkip(dxf_clean0) THEN <<>>
                        ELSE SortedCandidates(part_files, dxf_clean),
         ties |-> IF MappedToSkip(dxf_clean0) THEN 0
                  ELSE LET c == SortedCandidates(part_files, dxf_clean)
                       IN  IF c = <<>> THEN 0
                           ELSE Len(SelectSeq(c, LAMBDA f :
                                      Priority(f, dxf_clean)
                                          = Priority(c[1], dxf_clean)))]

ReadOutcomes == {"ok", "no_document", "raises"}

\* one pass of the loop over dxf_files; st carries the folder, the log,
\* renamed_count and errors; m is what matching found, how the outcome of
\* reading the designation from the part file
RenameOne(st, m, how, opened, order_number) ==
    LET entry == [file |-> m.file, key |-> m.key, skipped |-> m.skipped,
                  candidates |-> Len(m.candidates), ties |-> m.ties,
                  part_file |-> <<>>, marking |-> <<>>, quantity |-> 0,
                  warnings |-> <<>>, new_name |-> <<>>, renamed |-> FALSE,
                  error |-> FALSE]
    IN  IF m.skipped
        THEN [st EXCEPT !.log = Append(@, entry)]
        ELSE IF m.candidates = <<>> \/ how = "no_document"
        THEN [st EXCEPT !.log = Append(@,
                 [entry EXCEPT !.warnings = <<"not_found">>,
                               !.part_file = IF m.candidates = <<>> THEN <<>>
                                             ELSE m.candidates[1]])]
        ELSE
        LET part_file == m.candidates[1]
            part_number == Strip(NameParts(part_file)[1])
            part_marking_for_count ==
                IF how = "ok" THEN Strip(file_marks[part_file]) ELSE <<>>
            quantity ==
                IF part_marking_for_count # <<>>
                THEN (IF opened
                      THEN QuantityOf(CountMarking(parts, 1, part_marking_for_count, 0))
                      ELSE 1)
                ELSE 1
            warn == (IF how = "raises" THEN <<"marking_error">> ELSE <<>>)
                      \o (IF part_marking_for_count = <<>> THEN <<"no_marking">>
                          ELSE <<>>)
            new_name == NewDxfName(part_number, PartName(part_file), quantity,
                                   order_number)
            exists == IF new_name \in st.folder THEN <<"exists">> ELSE <<>>
            labelled == [entry EXCEPT !.part_file = part_file,
                                      !.marking = part_marking_for_count,
                                      !.quantity = quantity, !.new_name = new_name,
                                      !.warnings = warn]
        IN  IF m.file = new_name
            THEN [st EXCEPT !.log = Append(@, labelled)]
            ELSE IF m.file \notin st.folder
            THEN [st EXCEPT !.folder = @ \ {new_name},
                            !.errors = Append(@, m.file),
                            !.log = Append(@, [labelled EXCEPT !.error = TRUE,
                                                  !.warnings = warn \o exists])]
            ELSE [st EXCEPT !.folder = (@ \ {m.file}) \cup {new_name},
                            !.renamed_count = @ + 1,
                            !.log = Append(@, [labelled EXCEPT !.renamed = TRUE,
                                                  !.warnings = warn \o exists])]

\* the loop over dxf_files; the designation of the part file matched to
\* bad is read with outcome how, every other one is read
RECURSIVE RenameLoop(_, _, _, _, _, _)
RenameLoop(st, matches, bad, how, opened, order_number) ==
    IF matches = <<>> THEN st
    ELSE RenameLoop(RenameOne(st, Head(matches),
                              IF Head(matches).file = bad THEN how ELSE "ok",
                              opened, order_number),
                    Tail(matches), bad, how, opened, order_number)

DxfOrders == {<<>>, <<"A-1">>}
MaxDxfRuns == 2

\* at most one read of a designation ends otherwise than by a designation
ReadFaults(files) == {<<<<>>, "ok">>} \cup (files \X (ReadOutcomes \ {"ok"}))

\* one call of rename_dxf_files
RenameDxfFiles ==
    /\ dxf_result.calls < MaxDxfRuns
    /\ IF ~dxf_folder.exists
       THEN /\ dxf_result' = [calls |-> dxf_result.calls + 1, success |-> FALSE,
                              renamed_count |-> 0, errors |-> <<"no_dxf_folder">>]
            /\ dxf_log' = <<>>
            /\ UNCHANGED dxf_folder
       ELSE IF asm_files = {}
       THEN /\ dxf_result' = [calls |-> dxf_result.calls + 1, success |-> FALSE,
                              renamed_count |-> 0, errors |-> <<"no_assembly">>]
            /\ dxf_log' = <<>>
            /\ UNCHANGED dxf_folder
       ELSE \E dxf_files \in Orderings(dxf_folder.files),
               part_files \in Orderings(disk) :
              \E matches \in {[i \in DOMAIN dxf_files |->
                                  Match(dxf_files[i], part_files)]} :
                \E order_number \in DxfOrders, opened \in BOOLEAN,
                   fault \in ReadFaults(dxf_folder.files) :
                  \E st \in {RenameLoop([folder |-> dxf_folder.files, log |-> <<>>,
                                         renamed_count |-> 0, errors |-> <<>>],
                                        matches, fault[1], fault[2], opened,
                                        order_number)} :
                     /\ dxf_folder' = DxfFolder(st.folder)
                     /\ dxf_log' = st.log
                     /\ dxf_result' = [calls |-> dxf_result.calls + 1,
                                       success |-> st.renamed_count > 0,
                                       renamed_count |-> st.renamed_count,
                                       errors |-> st.errors]
    /\ UNCHANGED <<desigVars, qty, ops, propVars, guiVars>>

\* part files and flat patterns of a project
PartHousing  == <<"0", "0", "1", " - ", "Korpus", " ", "koroba", ".m3d">>
PartWall     == <<"0", "0", "2", " - ", "Stenka", ".m3d">>
PartWallEnd  == <<"0", "0", "3", " - ", "Stenka", " ", "tortsevaya", ".m3d">>
PartSpacer   == <<"0", "0", "4", " - ", "Rasporka", ".m3d">>
PartCover    == <<"0", "0", "5", " - ", "Nakladka", ".m3d">>
PartSpacerOrdered == <<"0", "0", "6", " - ", "Rasporka", " ", "(", "A-1", ")", ".m3d">>
PartUnnumbered == <<"Rasporka", ".m3d">>

DxfHousing     == <<"Razvertka", " ", "korpusa", " ", "koroba", ".dxf">>
DxfWall        == <<"Razvertka", " ", "stenki", ".dxf">>
DxfWallEnd     == <<"Razvertka", " ", "stenki", " ", "tortsevoj", ".dxf">>
DxfSpacer      == <<"Razvertka", " ", "rasporki", ".dxf">>
DxfShortSpacer == <<"Razvertka", " ", "ukorochennoj", " ", "rasporki", ".dxf">>
DxfBracket     == <<"Razvertka", " ", "kronshtejna", ".dxf">>

DxfNames == {DxfHousing, DxfWall, DxfWallEnd, DxfSpacer, DxfShortSpacer, DxfBracket}
MaxDxf == 2
DxfFolders == {S \in SUBSET DxfNames : Cardinality(S) <= MaxDxf}
DxfPartFolders ==
    { {PartHousing, PartWall, PartWallEnd}, {PartSpacer, PartCover},
      {PartSpacer, PartSpacerOrdered}, {PartHousing, PartUnnumbered} }

MkWall == <<" ">>
DxfMark(f) ==
    CASE f = PartHousing -> <<"X", ".", "0", "0", "1">>
      [] f = PartWall -> MkWall
      [] f = PartWallEnd -> <<"X", ".", "0", "0", "3">>
      [] f = PartSpacer -> <<"X", ".", "0", "0", "4">>
      [] f = PartCover -> <<"X", ".", "0", "0", "5">>
      [] OTHER -> <<"X", ".", "0", "0", "6">>

\* every part file once, the spacer twice
DxfAssembly(folder) ==
    LET one == CHOOSE q \in Orderings(folder) : TRUE
        inst(f) == [name |-> PartName(f), marking |-> DxfMark(f),
                    fileName |-> ProjectDir \o f]
    IN  [i \in 1..Len(one) |-> inst(one[i])]
            \o (IF PartSpacer \in folder THEN <<inst(PartSpacer)>> ELSE <<>>)

InitDxf ==
    /\ disk \in DxfPartFolders
    /\ parts = DxfAssembly(disk)
    /\ file_marks = [f \in disk |-> DxfMark(f)]
    /\ drawings = {}
    /\ faulty = FALSE
    /\ asm_files \in {{}, {AsmOld}}
    /\ asm_marking = <<"OLD", " ", "SB">>
    /\ NoDesignationRun
    /\ qty = NoQty
    /\ ops = <<>>
    /\ NoVariablesRun
    /\ GuiIdle
    /\ dxf_folder \in {DxfFolder(S) : S \in DxfFolders} \cup {DxfMissing}
    /\ dxf_log = <<>>
    /\ dxf_result = NoDxfResult

NextDxf == RenameDxfFiles

SpecDxf == InitDxf /\ [][NextDxf]_vars

(***************************************************************************)
(* The GUI: button handlers on the GUI thread, worker threads.             *)
(***************************************************************************)
MaxWorkers == 2

\* "ШАГ 1/10" .. "ШАГ 10/10" of do_everything
PipelineSteps == 10

Operations == {"do_everything", "update_variables"}
StepsOf(op) == IF op = "do_everything" THEN PipelineSteps ELSE 1

InitGui ==
    /\ parts = <<>>
    /\ disk = {}
    /\ file_marks = <<>>
    /\ drawings = {}
    /\ faulty = FALSE
    /\ asm_files = {}
    /\ asm_marking = <<>>
    /\ NoDesignationRun
    /\ qty = NoQty
    /\ ops = <<>>
    /\ NoVariablesRun
    /\ GuiIdle
    /\ NoDxfRun

\* a button handler: "if self.is_processing: return", then
\* threading.Thread(target=task, daemon=True).start()
Click ==
    /\ Len(workers) < MaxWorkers
    /\ ~is_processing
    /\ \E op \in Operations :
         workers' = Append(workers, [op |-> op, pc |-> "started", step |-> 0])
    /\ UNCHANGED <<is_processing, cancel_requested, cancel_btn, accepted>>
    /\ UNCHANGED <<desigVars, qty, ops, propVars, dxfVars>>

\* start_processing, statement by statement
StartProcessing ==
    \E w \in 1..Len(workers) :
        /\ workers[w].pc \in {"started", "start_cancel", "start_btn"}
        /\ CASE workers[w].pc = "started" ->
                  /\ is_processing' = TRUE
                  /\ workers' = [workers EXCEPT ![w].pc = "start_cancel"]
                  /\ UNCHANGED <<cancel_requested, cancel_btn>>
             [] workers[w].pc = "start_cancel" ->
                  /\ cancel_requested' = FALSE
                  /\ workers' = [workers EXCEPT ![w].pc = "start_btn"]
                  /\ UNCHANGED <<is_processing, cancel_btn>>
             [] workers[w].pc = "start_btn" ->
                  /\ cancel_btn' = "normal"
                  /\ workers' = [workers EXCEPT ![w].pc = "run"]
                  /\ UNCHANGED <<is_processing, cancel_requested>>
        /\ UNCHANGED <<accepted, desigVars, qty, ops, propVars, dxfVars>>

\* the body of task(): do_everything tests cancel_requested before each of
\* its steps and returns when it is set, or when the copy of step 1 failed;
\* update_variables makes its one call
Step ==
    \E w \in 1..Len(workers) :
        /\ workers[w].pc = "run"
        /\ IF workers[w].step = StepsOf(workers[w].op)
           THEN workers' = [workers EXCEPT ![w].pc = "stop"]
           ELSE IF workers[w].op = "do_everything" /\ cancel_requested
           THEN workers' = [workers EXCEPT ![w].pc = "stop"]
           ELSE \/ workers' = [workers EXCEPT ![w].step = @ + 1]
                \/ /\ workers[w].op = "do_everything"
                   /\ workers[w].step = 0
                   /\ workers' = [workers EXCEPT ![w].step = 1, ![w].pc = "stop"]
        /\ UNCHANGED <<is_processing, cancel_requested, cancel_btn, accepted>>
    /\ UNCHANGED <<desigVars, qty, ops, propVars, dxfVars>>

\* stop_processing, statement by statement
StopProcessing ==
    \E w \in 1..Len(workers) :
        /\ workers[w].pc \in {"stop", "stop_cancel", "stop_btn"}
        /\ CASE workers[w].pc = "stop" ->
                  /\ is_processing' = FALSE
                  /\ workers' = [workers EXCEPT ![w].pc = "stop_cancel"]
                  /\ UNCHANGED <<cancel_requested, cancel_btn>>
             [] workers[w].pc = "stop_cancel" ->
                  /\ cancel_requested' = FALSE
                  /\ workers' = [workers EXCEPT ![w].pc = "stop_btn"]
                  /\ UNCHANGED <<is_processing, cancel_btn>>
             [] workers[w].pc = "stop_btn" ->
                  /\ cancel_btn' = "disabled"
                  /\ workers' = [workers EXCEPT ![w].pc = "done"]
                  /\ UNCHANGED <<is_processing, cancel_requested>>
        /\ UNCHANGED <<accepted, desigVars, qty, ops, propVars, dxfVars>>

\* the workers whose run is in progress: is_processing set, task() not left
InProgress == {w \in 1..Len(workers) : workers[w].pc \in {"start_cancel", "start_btn", "run"}}

\* cancel_operation, the command of the cancel button while it is enabled:
\* "if not self.is_processing: return", then cancel_requested = True
CancelOperation ==
    /\ cancel_btn = "normal"
    /\ is_processing
    /\ cancel_requested' = TRUE
    /\ accepted' = [w \in InProgress |-> workers[w].step]
                       @@ [w \in DOMAIN accepted \ InProgress |-> accepted[w]]
    /\ UNCHANGED <<is_processing, cancel_btn, workers, desigVars, qty, ops, propVars, dxfVars>>

NextGui == Click \/ StartProcessing \/ Step \/ StopProcessing \/ CancelOperation

SpecGui == InitGui /\ [][NextGui]_vars

\* update_designations_only: "if self.is_processing: return", the checks of
\* the fields and of the project path, then "def task(): ..." and the end of
\* the handler; the task defined is handed to no thread
UpdateDesignationsOnly ==
    /\ Len(workers) < MaxWorkers
    /\ ~is_processing
    /\ \E valid \in BOOLEAN :
         workers' = IF valid
                    THEN Append(workers, [op |-> "update_designations_only",
                                          pc |-> "defined", step |-> 0])
                    ELSE workers
    /\ UNCHANGED <<is_processing, cancel_requested, cancel_btn, accepted>>
    /\ UNCHANGED <<desigVars, qty, ops, propVars, dxfVars>>

NextButtons ==
    Click \/ UpdateDesignationsOnly \/ StartProcessing \/ Step \/ StopProcessing
        \/ CancelOperation

\* a statement of the thread of task w
ThreadStep(w) ==
    /\ w <= Len(workers)
    /\ StartProcessing \/ Step \/ StopProcessing
    /\ workers'[w] # workers[w]

\* every started thread keeps running
SpecButtons ==
    InitGui /\ [][NextButtons]_vars /\ \A w \in 1..MaxWorkers : WF_vars(ThreadStep(w))

(***************************************************************************)
(* C12: a project folder without an assembly file.                         *)
(***************************************************************************)
FileEventKinds ==
    {"marking", "save", "rename", "rename_exists", "rename_missing", "unlink"}

\* C12: without an assembly file update_all_designations returns success =
\* False with its error set, update_project_variables returns success = False
\* after its first step, and neither opens, edits or renames a part file or
\* a drawing: the only document ever open is the one found open
C12_NoAssembly ==
    asm_files = {} =>
        /\ run > 0 => (~d_result.success /\ d_result.error = "no assembly file")
        /\ pc \in {"idle", "done"}
        /\ pc = "done" => (~result.success /\ result.errors = 1)
        /\ \A k \in 1..Len(ops) :
               /\ ops[k].op \notin FileEventKinds
               /\ ops[k].op = "open" => ops[k].doc = OtherDoc /\ k = 1
        /\ disk = {PartKorpus}
        /\ drawings = {DrwPlain}
        /\ file_marks = [f \in {PartKorpus} |-> MkOld]
        /\ part_vars = [f \in {PartKorpus} |-> InitPartVars[f]]

\* both handlers have returned from a folder without an assembly file
C12_Witness ==
    /\ asm_files = {}
    /\ run > 0
    /\ pc = "done"
    /\ pv_args # NoPvArgs
    /\ result.errors = 1

(***************************************************************************)
(* C13-C15: the files of update_all_designations.                          *)
(***************************************************************************)
IsPartFile(d) == d # <<>> /\ d[Len(d)] = ".m3d"
RenameKinds == {"rename", "rename_exists", "rename_missing"}
EditKinds == {"open", "marking", "save"}

\* C13: every rename of a part file is made while no document is open in
\* the CAD application and is followed by no edit of a part file
C13_RenamesAfterEdits ==
    \A k \in 1..Len(ops) :
        (ops[k].op \in RenameKinds /\ IsPartFile(ops[k].doc)) =>
            /\ DocumentsUpTo(ops, k - 1) = {}
            /\ \A j \in (k + 1)..Len(ops) :
                   ~(ops[j].op \in EditKinds /\ IsPartFile(ops[j].doc))

\* C14: no rename is given up because a file is present at its target: the
\* file found there is deleted and the rename is carried out
C14_TargetReplaced ==
    \A k \in 1..Len(ops) : ops[k].op # "rename_exists"

PartDescription(f) == IF HasNumber(Stem(f)) THEN AfterDash(Stem(f)) ELSE Stem(f)
IsPartDrawing(d) == ~IsAssemblyDrawing(d) /\ HasNumber(Stem(d))

\* C15: after a run without errors every part file is named by the
\* sequence number of its file_to_marking entry, and every drawing of a part
\* carries the description and the sequence number of a part of the run
C15_NamesCarrySequence ==
    (run > 0 /\ d_result.success /\ d_result.errors = 0) =>
        /\ \A f \in disk :
               \E k \in 1..Len(file_to_marking) :
                   f = NewFileName(file_to_marking[k].part_id,
                                   file_to_marking[k].filename)
        /\ \A d \in drawings :
               IsPartDrawing(d) =>
                   \E k \in 1..Len(file_to_marking) :
                       /\ Strip(PartDescription(d))
                              = Strip(PartDescription(file_to_marking[k].filename))
                       /\ Strip(BeforeDash(Stem(d))) = file_to_marking[k].part_id

(***************************************************************************)
(* C18, C20: the GUI's serialization and its cancellation flag.            *)
(***************************************************************************)
Executing == {w \in 1..Len(workers) : workers[w].pc = "run"}

\* C18: at most one worker is executing the body of its task at any time
C18_OneWorker == Cardinality(Executing) <= 1

\* C20: a worker of do_everything whose run was in progress when a cancel
\* was accepted starts no step after it
C20_CancelObserved ==
    \A w \in DOMAIN accepted :
        workers[w].op = "do_everything" => workers[w].step = accepted[w]

(***************************************************************************)
(* C21: the spacer is opened a second time.                                *)
(***************************************************************************)
HasSpacerWord(d) == \E k \in 1..Len(d) : d[k] \in {"Rasporka", "rasporka"}
CallsOn(d) == SelectSeq(ops, LAMBDA e : e.doc = d)
OpensOf(d) == Len(SelectSeq(ops, LAMBDA e : e = Op("open", d)))
CycleOn(d) == <<Op("update", d), Op("rebuild_model", d), Op("rebuild_document", d)>>
FirstPassOn(d) == <<Op("open", d)>> \o CycleOn(d) \o <<Op("save", d), Op("close", d)>>
SecondPassOn(d) ==
    <<Op("open", d)>> \o CycleOn(d) \o CycleOn(d) \o CycleOn(d)
        \o <<Op("save", d), Op("close", d)>>
UpdatedIn(d) == Cardinality(Touched(part_vars[d], all_calculated_vars))
Contiguous(d) ==
    LET on == {k \in 1..Len(ops) : ops[k].doc = d}
    IN  \A i \in on, k \in on : Cardinality(on) >= k - i + 1

\* C21: a part file named with the spacer word in which a variable was
\* updated and on which no call fails is opened, rebuilt once, saved, closed,
\* opened again, rebuilt three times, saved and closed, with no call on
\* another document in between; every other part file is opened at most
\* once.
C21_SpacerReopened ==
    \A d \in DOMAIN part_log :
        /\ Contiguous(d)
        /\ IF HasSpacerWord(d) /\ UpdatedIn(d) > 0
           THEN part_log[d] = "ok" => CallsOn(d) = FirstPassOn(d) \o SecondPassOn(d)
           ELSE OpensOf(d) <= 1

C21_Witness ==
    /\ pc = "done" /\ result.success
    /\ DOMAIN part_log = DOMAIN SpacerPartVars
    /\ \A d \in DOMAIN part_log : part_log[d] = "ok"
    /\ OpensOf(PartRasporka) = 2
    /\ Len(CallsOn(PartRasporka)) = 18
    /\ UpdatedIn(SpacerBare) = 0 /\ OpensOf(SpacerBare) = 1
    /\ UpdatedIn(PartKorpus) > 0 /\ OpensOf(PartKorpus) = 1

(***************************************************************************)
(* C22: the two enumerations of the assembly's instances.                  *)
(***************************************************************************)
Designated(m) ==
    {i \in 1..Len(inst_log) :
        ~inst_log[i].service /\ Strip(inst_log[i].new_mark) = m}

\* C22: the quantity is counted over the instances the designation pass
\* went through: the pass reached every instance of the assembly, and the
\* count for a designation is the number of instances the pass gave that
\* designation or left it with.
C22_SameEnumeration ==
    (run > 0 /\ qty.called /\ qty.opened) =>
        /\ Len(inst_log) = Len(parts)
        /\ Designated(qty.part_marking) # {} =>
              qty.quantity = Cardinality(Designated(qty.part_marking))


KeyWords(k) == WordSet(dxf_to_part_mapping[k].dxf_key)

\* the pairs of keys of which the first has strictly fewer words of the second
NestedKeys ==
    {<<a, b>> \in (DOMAIN dxf_to_part_mapping) \X (DOMAIN dxf_to_part_mapping) :
        KeyWords(a) \subseteq KeyWords(b) /\ KeyWords(a) # KeyWords(b)}

\* C23: the key list is tested from specific to generic: a flat pattern whose
\* name has the words of two keys, one a strict subset of the other, is never
\* resolved by the smaller key; the name with the words of the shortened
\* spacer is skipped as a cover plate, not matched as a spacer.
C23_SpecificKeyFirst ==
    \A i \in DOMAIN dxf_log :
        \A p \in NestedKeys :
            KeyMatches(p[2], DxfClean(Stem(dxf_log[i].file)))
                => dxf_log[i].key # p[1]


\* the flat patterns of the last call that matching left without a single
\* best part file: no candidate, or several of the best rank
Ambiguous ==
    {i \in DOMAIN dxf_log :
        ~dxf_log[i].skipped /\ (dxf_log[i].candidates = 0 \/ dxf_log[i].ties > 1)}

\* C24: a flat pattern with no candidate or with several equally ranked
\* candidates gets a warning and the label of quantity 1, and the loop goes
\* on to the remaining flat patterns.
C24_AmbiguousMatchDefaults ==
    /\ dxf_result.calls > 0 /\ dxf_folder.exists /\ asm_files # {}
          => Len(dxf_log) >= Cardinality(dxf_folder.files)
    /\ \A i \in Ambiguous :
          /\ dxf_log[i].warnings # <<>>
          /\ dxf_log[i].quantity = 1
          /\ dxf_log[i].new_name # <<>>


(***************************************************************************)
(* C25: the heat exchanger's part file.                                    *)
(***************************************************************************)
IsHeatFile(f) == Contains(Lower(f), HeatWord)

\* the tokens of a designation and the dot fields of its first token
Tokens(mk) == Words(mk)
Fields(mk) == Split(Tokens(mk)[1], ".")
HasLengthField(mk) == Len(Tokens(mk)) >= 2 /\ Len(Fields(mk)) = 3

\* the name a part file has after the step
NameAfter(f) ==
    IF \E k \in 1..Len(ops') : ops'[k].op = "rename" /\ ops'[k].doc = f
    THEN (CHOOSE e \in {ops'[k] : k \in 1..Len(ops')} :
              e.op = "rename" /\ e.doc = f).to
    ELSE f

\* the step wrote and saved the designation of f
SavedInStep(f) ==
    /\ \E k \in 1..Len(ops') : ops'[k] = Op("marking", f)
    /\ \E k \in 1..Len(ops') : ops'[k] = Op("save", f)

HeatStep ==
    run' = run + 1 =>
        \A f \in disk :
            (IsHeatFile(f) /\ SavedInStep(f) /\ NameAfter(f) \in DOMAIN file_marks') =>
                LET old == file_marks[f]
                    new == file_marks'[NameAfter(f)]
                IN  IF HasLengthField(old)
                    THEN /\ Tokens(new)[1]
                              = Fields(old)[1] \o <<".">> \o Fields(old)[2] \o <<".">>
                                    \o StrInt(args'.L1 - 300)
                         /\ Tail(Tokens(new)) = Tail(Tokens(old))
                    ELSE new = old

\* C25: the designation written to a part file named as a heat exchanger is
\* its previous designation with the third dot field of the first token
\* replaced by L1 - 300 when that designation has at least two tokens and the
\* first has exactly three dot fields, and the previous designation itself
\* otherwise; the designation bound from the assembly is not used.
C25_HeatExchanger == [][HeatStep]_vars

C25_Witness ==
    /\ run >= 1
    /\ args.L1 = 2600
    /\ \E f \in disk :
         /\ IsHeatFile(f)
         /\ file_marks[f] = <<"ZVD", ".", "TO", ".", "2", "3", "0", "0", " ", "TO", " ", "1">>
    /\ \E k \in 1..Len(file_to_marking) :
         /\ IsHeatFile(file_to_marking[k].filename)
         /\ StartsWith(file_to_marking[k].marking, args.prefix)
    /\ \E k \in 1..Len(ops) : ops[k].op = "save" /\ IsHeatFile(ops[k].doc)


(***************************************************************************)
(* C26: the designation pass invoked from the GUI.                         *)
(***************************************************************************)
\* C26: update_designations_only, called while idle with valid fields and an
\* existing project path, eventually runs update_all_designations on a
\* worker.
C26_DesignationsRun ==
    \A w \in 1..MaxWorkers :
        (w <= Len(workers) /\ workers[w].op = "update_designations_only")
            ~> (w <= Len(workers) /\ workers[w].step >= 1)

\* the same of a handler that starts its thread
VariablesRun ==
    \A w \in 1..MaxWorkers :
        (w <= Len(workers) /\ workers[w].op = "update_variables")
            ~> (w <= Len(workers) /\ workers[w].step >= 1)


(***************************************************************************)
(* C27: the rule of A3.                                                    *)
(***************************************************************************)
\* C27: when A3 is among the variables read, the derived A3 is the value that
\* was read; when it is absent (and A1 is known), A3 is A1 - 20.
C27_A3Kept ==
    (pc = "save" /\ Has(all_calculated_vars, nA1)) =>
        IF Has(read_vars, nA3)
        THEN all_calculated_vars[nA3] = read_vars[nA3]
        ELSE all_calculated_vars[nA3]
                 = DblSub(all_calculated_vars[nA1], DblFromInt(20))


(***************************************************************************)
(* C28: what a sequence number counts.                                     *)
(***************************************************************************)
\* the names first seen before the name of instance i, instances with an
\* empty designation or one starting with "-" left out
SeenBefore(i) == {Key(j) : j \in {k \in Numbered : k < FirstSeen(i)}}

\* C28: the sequence number of a name is 1 plus the number of distinct names
\* first seen before it among the instances that are not left out, the
\* purchased names counted; a purchased name takes a number although its
\* designation is not rewritten, so the numbers of the rewritten designations
\* need not start at 001 or be contiguous.
C28_SequenceNumber ==
    run >= 1 =>
        \A i \in Numbered :
            /\ inst_log[i].number = 1 + Cardinality(SeenBefore(i))
            /\ Key(i) \in DOMAIN name_to_number
            /\ name_to_number[Key(i)] = inst_log[i].number

C28_Witness ==
    /\ run >= 1
    /\ \E i, j \in Numbered :
         /\ IsPurchased(Key(i)) /\ inst_log[i].number = 1 /\ ~inst_log[i].wrote
         /\ ~IsPurchased(Key(j)) /\ inst_log[j].number = 2 /\ inst_log[j].wrote
         /\ \E k \in 1..(i - 1) : inst_log[k].service
    /\ \A j \in Numbered : inst_log[j].wrote => inst_log[j].number # 1


(***************************************************************************)
(* C29: the designations of the part files after a run.                    *)
(***************************************************************************)
\* the file of a file_to_marking entry after the renames
EntryFile(e) ==
    IF NewFileName(e.part_id, e.filename) \in disk
    THEN NewFileName(e.part_id, e.filename)
    ELSE e.filename

\* C29: after a run without errors no two part files of different
\* identities carry the same designation, the part files that are in the
\* folder but not in the assembly included.
C29_DistinctDesignations ==
    (run > 0 /\ d_result.success /\ d_result.errors = 0) =>
        \A k, l \in 1..Len(file_to_marking) :
            LET a == file_to_marking[k]
                b == file_to_marking[l]
            IN  ( /\ Strip(a.part_name) # Strip(b.part_name)
                  /\ EntryFile(a) # EntryFile(b)
                  /\ EntryFile(a) \in DOMAIN file_marks
                  /\ EntryFile(b) \in DOMAIN file_marks )
                    => file_marks[EntryFile(a)] # file_marks[EntryFile(b)]


(***************************************************************************)
(* C30: the documents left in the CAD application by a run.                *)
(***************************************************************************)
\* the documents update_project_variables opens: the assembly, the parts
RunDocuments == {assembly_file} \cup DOMAIN part_vars

\* C30: when update_project_variables has returned, on whatever path, no
\* document that the run opened is open in the CAD application.
C30_NothingLeftOpen ==
    pc = "done" => Documents(ops) \cap RunDocuments = {}

====
